---- MODULE Spec2Model ----
(***************************************************************************)
(* A model of hydra-lsp's analysis pipeline: the target extractor of       *)
(* yaml_parser.rs, the resolver and definition extractor of                *)
(* python_analyzer.rs and the diagnostics engine of diagnostics.rs.        *)
(*                                                                         *)
(* Rust Strings that the code takes apart (target values, lines of text)   *)
(* are sequences of one-character strings; names that are only compared    *)
(* (parameter names, Python identifiers) are TLA+ strings.  Option<T> is a *)
(* sequence of length 0 (None) or 1 (Some).  Result<T, E> is a record with *)
(* an ok flag.                                                             *)
(***************************************************************************)
EXTENDS Integers, Sequences, FiniteSets, Bags, TLC

VARIABLES
    targets,      \* validate_document's argument: HashMap<u32, TargetInfo>
    world,        \* what the run reads: workspace root, file system, site-packages
    diagnostics,  \* the Vec<Diagnostic> validate_document returns
    resolved,     \* the module paths resolve_module was called with during the run
    phase,        \* "input" before the run, "validated" or "parsed" after it
    content,      \* the text YamlParser::parse is given, as its lines
    yaml,         \* the serde_yaml::Value that text deserializes to
    parsed,       \* what YamlParser::parse returns
    query,        \* the argument of one call of a function of the analyzer
    answer,       \* what that call returns
    documents,    \* the DocumentStore of the backend, for one Url
    inflight,     \* the handlers suspended at client.publish_diagnostics(..).await
    published,    \* the publishDiagnostics notifications sent, in order
    version       \* the version of the last text the client sent

vars == <<targets, world, diagnostics, resolved, phase, content, yaml, parsed, query, answer,
          documents, inflight, published, version>>

----------------------------------------------------------------------------
(* Generic helpers                                                         *)

None == <<>>
Some(x) == <<x>>

Range(s) == {s[i] : i \in DOMAIN s}

\* All orders in which the elements of a finite set can be iterated
\* (the iteration order of a HashMap or HashSet is unspecified).
Perms(S) ==
    {s \in [1..Cardinality(S) -> S] : \A i, j \in 1..Cardinality(S) : s[i] = s[j] => i = j}

RECURSIVE Concat(_)
Concat(ss) == IF ss = <<>> THEN <<>> ELSE Head(ss) \o Concat(Tail(ss))

RECURSIVE SeqToBag(_)
SeqToBag(s) == IF s = <<>> THEN EmptyBag ELSE SetToBag({Head(s)}) (+) SeqToBag(Tail(s))

\* str::split(sep): the pieces between the separators; an empty string gives
\* one empty piece.
RECURSIVE split(_, _)
split(s, sep) ==
    IF \E i \in 1..Len(s) : s[i] = sep
    THEN LET i == CHOOSE k \in 1..Len(s) : s[k] = sep /\ \A j \in 1..(k - 1) : s[j] # sep
         IN  <<SubSeq(s, 1, i - 1)>> \o split(SubSeq(s, i + 1, Len(s)), sep)
    ELSE <<s>>

\* [&str]::join(sep)
RECURSIVE join(_, _)
join(parts, sep) ==
    IF Len(parts) = 0 THEN <<>>
    ELSE IF Len(parts) = 1 THEN parts[1]
    ELSE parts[1] \o <<sep>> \o join(Tail(parts), sep)

----------------------------------------------------------------------------
(* python_analyzer.rs: split_target                                        *)

split_target_accepts_single(target) ==
    LET parts == split(target, ".")
    IN  [ok |-> TRUE,
         module_path |-> join(SubSeq(parts, 1, Len(parts) - 1), "."),
         symbol_name |-> parts[Len(parts)]]

split_target(target) ==
    LET parts == split(target, ".")
    IN  IF Len(parts) < 2
        THEN [ok |-> FALSE, module_path |-> <<>>, symbol_name |-> <<>>]
        ELSE [ok |-> TRUE,
              module_path |-> join(SubSeq(parts, 1, Len(parts) - 1), "."),
              symbol_name |-> parts[Len(parts)]]

----------------------------------------------------------------------------
(* python_analyzer.rs: resolve_module.  A path is the sequence of its      *)
(* components; world.dirs are the search paths that exist and world.files  *)
(* maps each existing file to its content.                                 *)

INIT_PYI == <<"_", "_", "i", "n", "i", "t", "_", "_", ".", "p", "y", "i">>
INIT_PY == <<"_", "_", "i", "n", "i", "t", "_", "_", ".", "p", "y">>
EXT_PYI == <<".", "p", "y", "i">>
EXT_PY == <<".", "p", "y">>

\* PathBuf::push / Path::join of one component; an empty component adds none.
path_push(p, part) == IF part = <<>> THEN p ELSE Append(p, part)

RECURSIVE path_push_all(_, _)
path_push_all(p, parts) ==
    IF parts = <<>> THEN p ELSE path_push_all(path_push(p, Head(parts)), Tail(parts))

\* Path::with_extension on a path whose last component has no dot.
with_extension(p, ext) ==
    IF Len(p) = 0 THEN p ELSE [p EXCEPT ![Len(p)] = @ \o ext]

path_exists(w, p) == p \in w.dirs \/ p \in DOMAIN w.files

\* PathBuf::from("."), the process's current directory
CWD == << <<".">> >>

search_paths_of_cwd_first(w) ==
    <<CWD>> \o w.workspace_root \o (IF w.site_packages.ok THEN w.site_packages.val ELSE <<>>)

\* lines 124-148: workspace root (if given), ".", then the site-packages
\* directories environment discovery yields (none when discovery fails).
search_paths_of(w) ==
    w.workspace_root \o <<CWD>> \o (IF w.site_packages.ok THEN w.site_packages.val ELSE <<>>)

candidates_implementation_first(search_path, module_parts) ==
    LET package_path == path_push_all(search_path, module_parts)
        parent_path == path_push_all(search_path, SubSeq(module_parts, 1, Len(module_parts) - 1))
        last == module_parts[Len(module_parts)]
    IN  << path_push(package_path, INIT_PY),
           path_push(package_path, INIT_PYI),
           with_extension(package_path, EXT_PY),
           with_extension(package_path, EXT_PYI) >>
        \o (IF Len(module_parts) > 1
            THEN << path_push(parent_path, last \o EXT_PY),
                    path_push(parent_path, last \o EXT_PYI) >>
            ELSE <<>>)

\* lines 160-206: the candidates of one search path, in the order tried.
candidates(search_path, module_parts) ==
    LET package_path == path_push_all(search_path, module_parts)
        parent_path == path_push_all(search_path, SubSeq(module_parts, 1, Len(module_parts) - 1))
        last == module_parts[Len(module_parts)]
    IN  << path_push(package_path, INIT_PYI),
           path_push(package_path, INIT_PY),
           with_extension(package_path, EXT_PYI),
           with_extension(package_path, EXT_PY) >>
        \o (IF Len(module_parts) > 1
            THEN << path_push(parent_path, last \o EXT_PYI),
                    path_push(parent_path, last \o EXT_PY) >>
            ELSE <<>>)

resolve_module(module_path, w) ==
    LET module_parts == split(module_path, ".")
        search_paths == search_paths_of(w)
        all == Concat([i \in 1..Len(search_paths) |->
                         IF path_exists(w, search_paths[i])
                         THEN candidates(search_paths[i], module_parts)
                         ELSE <<>>])
        hits == SelectSeq(all, LAMBDA p : path_exists(w, p))
    IN  IF hits # <<>>
        THEN [ok |-> TRUE, path |-> hits[1], err |-> <<>>]
        ELSE [ok |-> FALSE, path |-> <<>>,
              err |-> <<"Could not resolve module", module_path, Len(search_paths)>>]

----------------------------------------------------------------------------
(* python_analyzer.rs: the definition extractor.  A parsed file is its     *)
(* suite, a sequence of statements; a statement has a kind, a name, the    *)
(* ast::Parameters of a function definition and a body of statements.      *)

NoParameters ==
    [posonlyargs |-> <<>>, args |-> <<>>, vararg |-> None, kwonlyargs |-> <<>>, kwarg |-> None]

FunctionDef(name, parameters, body) ==
    [kind |-> "FunctionDef", name |-> name, parameters |-> parameters, body |-> body]
ClassDef(name, body) ==
    [kind |-> "ClassDef", name |-> name, parameters |-> NoParameters, body |-> body]
OtherStmt(body) ==
    [kind |-> "Other", name |-> <<>>, parameters |-> NoParameters, body |-> body]

DUNDER_INIT == <<"_", "_", "i", "n", "i", "t", "_", "_">>

\* lines 458-472 and 488-502: one ParameterInfo per ParameterWithDefault
plain_parameter(p, keyword_only) ==
    [name |-> p.name, has_default |-> p.default # None,
     is_variadic |-> FALSE, is_variadic_keyword |-> FALSE, is_keyword_only |-> keyword_only]

extract_parameters_kwarg_as_plain(params) ==
    [i \in 1..Len(params.posonlyargs \o params.args) |->
        plain_parameter((params.posonlyargs \o params.args)[i], FALSE)]
    \o [i \in 1..Len(params.vararg) |->
        [name |-> params.vararg[i].name, has_default |-> FALSE,
         is_variadic |-> TRUE, is_variadic_keyword |-> FALSE, is_keyword_only |-> FALSE]]
    \o [i \in 1..Len(params.kwonlyargs) |-> plain_parameter(params.kwonlyargs[i], TRUE)]
    \o [i \in 1..Len(params.kwarg) |->
        [name |-> params.kwarg[i].name, has_default |-> FALSE,
         is_variadic |-> FALSE, is_variadic_keyword |-> FALSE, is_keyword_only |-> FALSE]]

extract_parameters(params) ==
    [i \in 1..Len(params.posonlyargs \o params.args) |->
        plain_parameter((params.posonlyargs \o params.args)[i], FALSE)]
    \o [i \in 1..Len(params.vararg) |->
        [name |-> params.vararg[i].name, has_default |-> FALSE,
         is_variadic |-> TRUE, is_variadic_keyword |-> FALSE, is_keyword_only |-> FALSE]]
    \o [i \in 1..Len(params.kwonlyargs) |-> plain_parameter(params.kwonlyargs[i], TRUE)]
    \o [i \in 1..Len(params.kwarg) |->
        [name |-> params.kwarg[i].name, has_default |-> FALSE,
         is_variadic |-> FALSE, is_variadic_keyword |-> TRUE, is_keyword_only |-> FALSE]]

extract_function_signature_from_def(func_def) ==
    [name |-> func_def.name, parameters |-> extract_parameters(func_def.parameters)]

\* lines 433-451: the first __init__ function directly in the class body
extract_class_info_from_def(class_def) ==
    LET inits == SelectSeq(class_def.body,
                           LAMBDA st : st.kind = "FunctionDef" /\ st.name = DUNDER_INIT)
    IN  [name |-> class_def.name,
         init_signature |-> IF inits = <<>> THEN None
                            ELSE Some(extract_function_signature_from_def(inits[1]))]

\* FunctionExtractor / ClassExtractor: visit_body over the suite, pre-order;
\* a statement of the wanted kind and name ends the walk, any other statement
\* is walked into (walk_stmt).  The result is None or Some(statement).
RECURSIVE visit_body(_, _, _)
visit_body(stmts, kind, target_name) ==
    IF stmts = <<>> THEN None
    ELSE LET st == Head(stmts)
         IN  IF st.kind = kind /\ st.name = target_name THEN Some(st)
             ELSE LET inner == visit_body(st.body, kind, target_name)
                  IN  IF inner # None THEN inner
                      ELSE visit_body(Tail(stmts), kind, target_name)

\* lines 218-239: read the file, parse it, find the function
extract_function_signature(w, file_path, function_name) ==
    LET file == w.files[file_path]
        found == visit_body(file.suite, "FunctionDef", function_name)
    IN  IF ~file.parses \/ found = None
        THEN [ok |-> FALSE, val |-> None]
        ELSE [ok |-> TRUE, val |-> Some(extract_function_signature_from_def(found[1]))]

\* lines 242-260
extract_class_info(w, file_path, class_name) ==
    LET file == w.files[file_path]
        found == visit_body(file.suite, "ClassDef", class_name)
    IN  IF ~file.parses \/ found = None
        THEN [ok |-> FALSE, val |-> None]
        ELSE [ok |-> TRUE, val |-> Some(extract_class_info_from_def(found[1]))]

\* lines 263-282: Err, Function(signature) or Class(class info); calls holds
\* the module paths resolve_module was called with.
\* lines 272-281: the function of that name, else the class, else Err
definition_in_file(fn, cl, calls) ==
    IF fn.ok THEN [ok |-> TRUE, kind |-> "Function", val |-> fn.val, calls |-> calls]
    ELSE IF cl.ok THEN [ok |-> TRUE, kind |-> "Class", val |-> cl.val, calls |-> calls]
    ELSE [ok |-> FALSE, kind |-> "Err", val |-> None, calls |-> calls]

\* lines 269-281: after resolve_module(&module_path, workspace_root)?
definition_in_module(st, rm, w) ==
    IF ~rm.ok THEN [ok |-> FALSE, kind |-> "Err", val |-> None, calls |-> {st.module_path}]
    ELSE definition_in_file(extract_function_signature(w, rm.path, st.symbol_name),
                            extract_class_info(w, rm.path, st.symbol_name),
                            {st.module_path})

\* lines 268-281: after split_target(target)?
definition_of_symbol(st, w) ==
    IF ~st.ok THEN [ok |-> FALSE, kind |-> "Err", val |-> None, calls |-> {}]
    ELSE definition_in_module(st, resolve_module(st.module_path, w), w)

extract_definition_info(target, w) == definition_of_symbol(split_target(target), w)

----------------------------------------------------------------------------
(* diagnostics.rs.  A Diagnostic is its range (one line, two columns), its *)
(* severity, its code ("none" for None) and its message; the message is    *)
(* kept as its fixed text and the values formatted into it.  The field     *)
(* target is not in the code: it records the line of the TargetInfo the    *)
(* finding was produced for, so that findings can be told apart by entry.  *)

Diagnostic(line, character, end_character, severity, code, text, name, subject, reason, owner) ==
    [line |-> line, character |-> character, end_character |-> end_character,
     severity |-> severity, code |-> code,
     message |-> [text |-> text, name |-> name, subject |-> subject, reason |-> reason],
     target |-> owner]

\* yaml_parser.rs TargetInfo::value_end
value_end(target_info) == target_info.value_start + Len(target_info.value)

\* lines 19-37
invalid_target_diagnostic(t) ==
    Diagnostic(t.line, t.value_start, value_end(t), "ERROR", "invalid-target",
               "Invalid _target_ format", "", t.value, <<>>, t.line)

\* lines 57-78
symbol_not_found_diagnostic(t, st) ==
    Diagnostic(t.line, t.value_start, value_end(t), "ERROR", "symbol-not-found",
               "Symbol not found in module", "", st.symbol_name, <<st.module_path>>, t.line)

\* lines 83-101
module_not_found_diagnostic(t, st, err) ==
    Diagnostic(t.line, t.key_start, value_end(t), "ERROR", "module-not-found",
               "Cannot resolve module", "", st.module_path, err, t.line)

\* lines 7-106; calls holds the module paths resolve_module was called with
validate_target_inverted_symbol_check(target_info, w) ==
    LET st == split_target(target_info.value)
        rm == resolve_module(st.module_path, w)
        symbol_found ==
            IF extract_function_signature(w, rm.path, st.symbol_name).ok THEN TRUE
            ELSE extract_class_info(w, rm.path, st.symbol_name).ok
    IN  IF ~st.ok
        THEN [diagnostics |-> <<invalid_target_diagnostic(target_info)>>, calls |-> {}]
        ELSE IF rm.ok
            THEN [diagnostics |-> IF symbol_found
                                  THEN <<symbol_not_found_diagnostic(target_info, st)>>
                                  ELSE <<>>,
                  calls |-> {st.module_path}]
        ELSE [diagnostics |-> <<module_not_found_diagnostic(target_info, st, rm.err)>>,
              calls |-> {st.module_path}]

\* lines 45-54: symbol_found
symbol_found_in(w, file_path, symbol_name) ==
    IF extract_function_signature(w, file_path, symbol_name).ok THEN TRUE
    ELSE extract_class_info(w, file_path, symbol_name).ok

\* lines 42-103: the match on resolve_module's result
validate_resolved(target_info, st, rm, w) ==
    IF rm.ok
    THEN [diagnostics |-> IF ~symbol_found_in(w, rm.path, st.symbol_name)
                          THEN <<symbol_not_found_diagnostic(target_info, st)>>
                          ELSE <<>>,
          calls |-> {st.module_path}]
    ELSE [diagnostics |-> <<module_not_found_diagnostic(target_info, st, rm.err)>>,
          calls |-> {st.module_path}]

\* lines 16-103: the match on split_target's result
validate_split(target_info, st, w) ==
    IF ~st.ok
    THEN [diagnostics |-> <<invalid_target_diagnostic(target_info)>>, calls |-> {}]
    ELSE validate_resolved(target_info, st, resolve_module(st.module_path, w), w)

validate_target(target_info, w) ==
    validate_split(target_info, split_target(target_info.value), w)

\* lines 130-148
unknown_parameter_diagnostic(t, signature, param_name) ==
    LET param_value == t.parameters[param_name]
    IN  Diagnostic(param_value.line, param_value.key_start, param_value.key_end,
                   "ERROR", "unknown-parameter",
                   "Unknown parameter", param_name, signature.name, <<>>, t.line)

\* lines 160-181
missing_parameter_diagnostic(t, signature, param) ==
    Diagnostic(t.line, t.value_start, value_end(t), "ERROR", "missing-parameter",
               "Missing required parameter", param.name, signature.name, <<>>, t.line)

\* lines 195-211
kwargs_hint_diagnostic(t, param_name) ==
    LET param_value == t.parameters[param_name]
    IN  Diagnostic(param_value.line, param_value.key_start, param_value.key_end,
                   "HINT", "none",
                   "Parameter will be passed via **kwargs", param_name, <<>>, <<>>, t.line)

expected_params_of_with_self(signature) ==
    {p.name : p \in {q \in Range(signature.parameters) :
                        ~q.is_variadic /\ ~q.is_variadic_keyword}}

\* lines 116-122
expected_params_of(signature) ==
    {p.name : p \in {q \in Range(signature.parameters) :
                        q.name # "self" /\ ~q.is_variadic /\ ~q.is_variadic_keyword}}

has_kwargs_of_any_variadic(signature) == \E p \in Range(signature.parameters) : p.is_variadic

\* line 125
has_kwargs_of(signature) == \E p \in Range(signature.parameters) : p.is_variadic_keyword

is_missing_despite_default(param, yaml_params) ==
    /\ ~param.is_variadic
    /\ ~param.is_variadic_keyword
    /\ param.name # "self"
    /\ param.name \notin yaml_params

\* lines 153-159
is_missing(param, yaml_params) ==
    /\ ~param.has_default
    /\ ~param.is_variadic
    /\ ~param.is_variadic_keyword
    /\ param.name # "self"
    /\ param.name \notin yaml_params

\* lines 109-218.  order is the order in which the HashMap of parameters (and
\* the HashSet built from its keys) happens to be iterated.
validate_parameters(target_info, signature, order) ==
    LET yaml_params == DOMAIN target_info.parameters
        expected_params == expected_params_of(signature)
        has_kwargs == has_kwargs_of(signature)
        unknown_keys == SelectSeq(order, LAMBDA k : k \notin expected_params /\ ~has_kwargs)
        unknown_errors == [i \in 1..Len(unknown_keys) |->
                             unknown_parameter_diagnostic(target_info, signature, unknown_keys[i])]
        missing_params == SelectSeq(signature.parameters, LAMBDA p : is_missing(p, yaml_params))
        missing_errors == [i \in 1..Len(missing_params) |->
                             missing_parameter_diagnostic(target_info, signature, missing_params[i])]
        after_loops == unknown_errors \o missing_errors
        unknown == SelectSeq(order, LAMBDA k : k \notin expected_params)
        hints == [i \in 1..Len(unknown) |-> kwargs_hint_diagnostic(target_info, unknown[i])]
    IN  IF has_kwargs /\ ~(yaml_params \subseteq expected_params) /\ unknown # <<>>
        THEN SelectSeq(after_loops, LAMBDA d : d.code # "unknown-parameter") \o hints
        ELSE after_loops

position_le_line_only(a, b) == a.line <= b.line

\* lines 258-264: Vec::sort_by is a stable sort on (start line, start character)
position_le(a, b) == a.line < b.line \/ (a.line = b.line /\ a.character <= b.character)

RECURSIVE insert_sorted(_, _)
insert_sorted(sorted, d) ==
    IF sorted = <<>> THEN <<d>>
    ELSE IF position_le(Head(sorted), d)
        THEN <<Head(sorted)>> \o insert_sorted(Tail(sorted), d)
    ELSE <<d>> \o sorted

RECURSIVE sort_by_position(_)
sort_by_position(s) ==
    IF s = <<>> THEN <<>>
    ELSE insert_sorted(sort_by_position(SubSeq(s, 1, Len(s) - 1)), s[Len(s)])

validate_entry_stops_at_failure(target, w, order) ==
    LET vt == validate_target(target, w)
        definition_info == extract_definition_info(target.value, w)
        signature ==
            IF definition_info.kind = "Function" THEN definition_info.val
            ELSE definition_info.val[1].init_signature
    IN  [diagnostics |->
            vt.diagnostics
            \o (IF definition_info.ok /\ signature # None
                THEN validate_parameters(target, signature[1], order)
                ELSE <<>>),
         calls |-> vt.calls \cup definition_info.calls,
         goes_on |-> definition_info.ok]

\* lines 229-253: one iteration of the loop over targets.values().  The record
\* says what the iteration pushed and whether the loop goes on.
\* lines 239-249: the signature the parameters are checked against, if any
signature_of_empty_without_init(definition_info) ==
    IF ~definition_info.ok THEN None
    ELSE IF definition_info.kind = "Function" THEN definition_info.val
    ELSE IF definition_info.val[1].init_signature = None
    THEN Some([name |-> definition_info.val[1].name, parameters |-> <<>>])
    ELSE definition_info.val[1].init_signature

signature_of(definition_info) ==
    IF ~definition_info.ok THEN None
    ELSE IF definition_info.kind = "Function" THEN definition_info.val
    ELSE definition_info.val[1].init_signature

\* lines 251-253
validate_against(target, signature, order) ==
    IF signature # None THEN validate_parameters(target, signature[1], order) ELSE <<>>

entry_result(target, vt, definition_info, order) ==
    [diagnostics |->
        vt.diagnostics \o validate_against(target, signature_of(definition_info), order),
     calls |-> vt.calls \cup definition_info.calls,
     goes_on |-> TRUE]

validate_entry(target, w, order) ==
    entry_result(target, validate_target(target, w),
                 extract_definition_info(target.value, w), order)

\* lines 226-255: the loop; order is the iteration order of targets.values(),
\* porder[k] that of the parameters of the entry at key k.
extend_with(e, rest) ==
    [diagnostics |-> e.diagnostics \o rest.diagnostics, calls |-> e.calls \cup rest.calls]

RECURSIVE validate_loop(_, _, _, _)
RECURSIVE validate_rest(_, _, _, _, _)

validate_loop(tgts, w, order, porder) ==
    IF order = <<>> THEN [diagnostics |-> <<>>, calls |-> {}]
    ELSE validate_rest(validate_entry(tgts[Head(order)], w, porder[Head(order)]),
                       tgts, w, Tail(order), porder)

validate_rest(e, tgts, w, order, porder) ==
    IF e.goes_on THEN extend_with(e, validate_loop(tgts, w, order, porder))
    ELSE extend_with(e, [diagnostics |-> <<>>, calls |-> {}])

\* lines 256-266: the sort and the return
sorted_result(looped) ==
    [diagnostics |-> sort_by_position(looped.diagnostics), calls |-> looped.calls]

\* lines 221-267
validate_document(tgts, w, order, porder) ==
    sorted_result(validate_loop(tgts, w, order, porder))

----------------------------------------------------------------------------
(* yaml_parser.rs.  A serde_yaml::Value is a record: kind is "Null",        *)
(* "String" (text holds the string), "Number", "Mapping" or "Sequence";     *)
(* children holds the entries of a mapping in insertion order, each a key   *)
(* Value and a val Value, and the items of a sequence (their key is Null).  *)

TARGET_KEY == <<"_", "t", "a", "r", "g", "e", "t", "_">>

NullValue == [kind |-> "Null", text |-> <<>>, children |-> <<>>]
StringValue(text) == [kind |-> "String", text |-> text, children |-> <<>>]
NumberValue(text) == [kind |-> "Number", text |-> text, children |-> <<>>]
Entry(key, val) == [key |-> key, val |-> val]
MappingValue(entries) == [kind |-> "Mapping", text |-> <<>>, children |-> entries]
SequenceValue(items) ==
    [kind |-> "Sequence", text |-> <<>>,
     children |-> [i \in 1..Len(items) |-> Entry(NullValue, items[i])]]

\* Mapping::get(TARGET_KEY): None or Some(value of the key "_target_")
mapping_get(map, key) ==
    LET hits == SelectSeq(map.children, LAMBDA e : e.key = StringValue(key))
    IN  IF hits = <<>> THEN None ELSE Some(hits[1].val)

\* lines 24-38: ParameterValue::new_value, ParameterValue::new_nested.  index
\* is the NestedTargetIndex, counted from 0 as in the code, and -1 for a Value.
\* The code keeps no value in a NestedTargetIndex; extract_parameters records
\* in val the mapping the index was made for, for the properties.
new_value(key, val) == [kind |-> "Value", val |-> val, index |-> -1, line |-> 0, key |-> key]
new_nested(key, index) ==
    [kind |-> "NestedTargetIndex", val |-> NullValue, index |-> index, line |-> 0, key |-> key]

\* lines 51-59: TargetInfo::new.  origin is not a field of the code: it
\* records the mapping the entry is extracted from, for the properties.
new_target(val, parameters) ==
    [value |-> val, parameters |-> parameters, line |-> 0, key_start |-> 0, value_start |-> 0,
     origin |-> NullValue]

is_nested_target(val) == val.kind = "Mapping" /\ mapping_get(val, TARGET_KEY) # None

\* lines 202-231 (extract_targets) and 234-262 (YamlParser::extract_parameters);
\* tgts is the VecDeque both push to.  walk_children is the two for loops of
\* extract_targets, yaml_extract_parameters returns the parameters and the
\* deque as it leaves it.
RECURSIVE extract_targets(_, _)
RECURSIVE walk_children(_, _)
RECURSIVE yaml_extract_parameters(_, _, _)

extract_targets(val, tgts) ==
    IF val.kind = "Mapping"
    THEN LET target == mapping_get(val, TARGET_KEY)
         IN  IF target # None /\ target[1].kind = "String"
             THEN LET target_index == Len(tgts)
                      pushed == Append(tgts, [new_target(target[1].text, <<>>) EXCEPT !.origin = val])
                      r == yaml_extract_parameters(val.children, pushed, <<>>)
                  IN  [r.targets EXCEPT ![target_index + 1].parameters = r.parameters]
             ELSE walk_children(val.children, tgts)
    ELSE IF val.kind = "Sequence" THEN walk_children(val.children, tgts)
    ELSE tgts

walk_children(entries, tgts) ==
    IF entries = <<>> THEN tgts
    ELSE walk_children(Tail(entries), extract_targets(Head(entries).val, tgts))

yaml_extract_parameters(entries, tgts, parameters) ==
    IF entries = <<>> THEN [parameters |-> parameters, targets |-> tgts]
    ELSE LET key == Head(entries).key
             val == Head(entries).val
         IN  IF key.kind = "String" /\ key.text # TARGET_KEY
             THEN IF is_nested_target(val)
                  THEN yaml_extract_parameters(Tail(entries), extract_targets(val, tgts),
                           Append(parameters, [new_nested(key.text, Len(tgts)) EXCEPT !.val = val]))
                  ELSE yaml_extract_parameters(Tail(entries), tgts,
                           Append(parameters, new_value(key.text, val)))
             ELSE yaml_extract_parameters(Tail(entries), tgts, parameters)

\* char::is_whitespace on the characters a text of the model can hold
is_whitespace(ch) == ch \in {" ", "\t", "\n"}

\* str::find(pattern) from a byte offset: the offset of the first occurrence
\* at or after pos, or -1
find_str(text, pat, pos) ==
    LET at == {i \in pos..(Len(text) - Len(pat)) : SubSeq(text, i + 1, i + Len(pat)) = pat}
    IN  IF at = {} THEN -1 ELSE CHOOSE i \in at : \A j \in at : i <= j

\* str::find(|c| !c.is_whitespace()) from an offset: offset relative to pos, or -1
find_non_whitespace(text, pos) ==
    LET at == {i \in pos..(Len(text) - 1) : ~is_whitespace(text[i + 1])}
    IN  IF at = {} THEN -1 ELSE (CHOOSE i \in at : \A j \in at : i <= j) - pos

\* lines 147-172: from after_target, an optional closing quote, optional
\* whitespace, then a colon
RECURSIVE colon_follows(_, _)
colon_follows(text, i) ==
    IF i >= Len(text) THEN FALSE
    ELSE IF text[i + 1] = ":" THEN TRUE
    ELSE IF is_whitespace(text[i + 1]) THEN colon_follows(text, i + 1)
    ELSE FALSE

\* lines 126-183; the result is None or Some(<<key_start, quote_offset>>)
RECURSIVE find_target_with_colon_from(_, _)
find_target_with_colon_from(text, pos) ==
    LET absolute_pos == find_str(text, TARGET_KEY, pos)
        after_target == absolute_pos + Len(TARGET_KEY)
        quoted == absolute_pos > 0 /\ text[absolute_pos] \in {"\"", "'"}
        quote_offset == IF quoted THEN 1 ELSE 0
        key_start == IF quoted THEN absolute_pos - 1 ELSE absolute_pos
        found_closing_quote == quoted /\ text[after_target + 1] = text[absolute_pos]
        found_colon ==
            colon_follows(text, IF found_closing_quote THEN after_target + 1 ELSE after_target)
    IN  IF absolute_pos = -1 THEN None
        ELSE IF after_target >= Len(text) THEN None
        ELSE IF found_colon /\ (quote_offset = 0 \/ found_closing_quote)
            THEN Some(<<key_start, quote_offset>>)
        ELSE find_target_with_colon_from(text, after_target)

find_target_with_colon(text) == find_target_with_colon_from(text, 0)

\* lines 306-329: the parameters of the target with the lines found for
\* them; a parameter no line is found for is not put back
RECURSIVE parameter_lines(_, _, _, _)
parameter_lines(lines, idx, remaining_params, key_start) ==
    IF idx >= Len(lines) \/ remaining_params = <<>> THEN <<>>
    ELSE LET line == lines[idx + 1]
             first == find_non_whitespace(line, 0)
             line_indent == IF first = -1 THEN 0 ELSE first
         IN  IF line_indent = key_start
             THEN <<[Head(remaining_params) EXCEPT !.line = idx]>>
                  \o parameter_lines(lines, idx + 1, Tail(remaining_params), key_start)
             ELSE parameter_lines(lines, idx + 1, remaining_params, key_start)

find_parameter_positions(lines, start_line, target_info) ==
    IF start_line >= Len(lines) THEN target_info
    ELSE [target_info EXCEPT
            !.parameters = parameter_lines(lines, start_line, @, target_info.key_start)]

\* lines 277-294: the column of the first character of the value
value_start_of(line, col, quote_offset) ==
    LET after_target == col + quote_offset + Len(TARGET_KEY)
        colon_at == find_str(line, <<":">>, after_target)
        after_colon == colon_at + 1
        value_offset == find_non_whitespace(line, after_colon)
        potential_value_start == after_colon + value_offset
    IN  IF colon_at = -1 \/ value_offset = -1 THEN 0
        ELSE IF line[potential_value_start + 1] \in {"\"", "'"} THEN potential_value_start + 1
        ELSE potential_value_start

\* lines 265-303: the loop over the lines from line_num on.  The result is
\* the positioned targets, or panics when a line matches and the deque is
\* empty (pop_front().unwrap()).
RECURSIVE find_positions_from(_, _, _, _)
find_positions_from(lines, line_num, tgts, positioned_targets) ==
    IF line_num >= Len(lines) THEN [panics |-> FALSE, targets |-> positioned_targets]
    ELSE LET found == find_target_with_colon(lines[line_num + 1])
         IN  IF found = None
             THEN find_positions_from(lines, line_num + 1, tgts, positioned_targets)
             ELSE IF tgts = <<>> THEN [panics |-> TRUE, targets |-> <<>>]
             ELSE LET col == found[1][1]
                      quote_offset == found[1][2]
                      target == [Head(tgts) EXCEPT
                                    !.line = line_num,
                                    !.key_start = col,
                                    !.value_start = value_start_of(lines[line_num + 1], col, quote_offset)]
                  IN  find_positions_from(lines, line_num + 1, Tail(tgts),
                          Append(positioned_targets,
                                 find_parameter_positions(lines, line_num + 1, target)))

find_positions(lines, tgts) == find_positions_from(lines, 0, tgts, <<>>)

\* lines 85-88: the last entry on a line is the one the map keeps
line_map_of_one_based(tgts) ==
    [l \in {tgts[i].line : i \in DOMAIN tgts} |->
        CHOOSE i \in DOMAIN tgts :
            tgts[i].line = l /\ \A j \in DOMAIN tgts : tgts[j].line = l => j <= i]

line_map_of(tgts) ==
    [l \in {tgts[i].line : i \in DOMAIN tgts} |->
        (CHOOSE i \in DOMAIN tgts :
            tgts[i].line = l /\ \A j \in DOMAIN tgts : tgts[j].line = l => j <= i) - 1]

NotParsed == [status |-> "none", targets |-> <<>>, line_map |-> <<>>]

\* lines 73-91; val is what serde_yaml::from_str made of the text.  status is
\* "ok" (Ok), "err" (the text does not deserialize) or "panic".
parse(lines, val) ==
    IF val.kind = "Error" THEN [status |-> "err", targets |-> <<>>, line_map |-> <<>>]
    ELSE LET positioned == find_positions(lines, extract_targets(val, <<>>))
         IN  IF positioned.panics THEN [status |-> "panic", targets |-> <<>>, line_map |-> <<>>]
             ELSE [status |-> "ok", targets |-> positioned.targets,
                   line_map |-> line_map_of(positioned.targets)]

Position(line, character) == [line |-> line, character |-> character]

\* lines 186-199 after the call of parse, given its result p: Ok(None),
\* Ok(Some(target)), or the Err or panic of parse
target_at_position(p, position) ==
    IF p.status # "ok" THEN [status |-> p.status, val |-> None]
    ELSE IF position.line \in DOMAIN p.line_map
    THEN LET target == p.targets[p.line_map[position.line] + 1]
         IN  IF position.character > target.value_start
                /\ position.character < value_end(target)
             THEN [status |-> "ok", val |-> Some(target)]
             ELSE [status |-> "ok", val |-> None]
    ELSE [status |-> "ok", val |-> None]

find_target_at_position(lines, val, position) ==
    target_at_position(parse(lines, val), position)

-----------------------------------------------------------------------------
(* yaml_parser.rs: get_completion_context.  A CompletionContext is a record *)
(* with its kind and the fields of the variant, the others empty.           *)

\* str::trim, str::starts_with
trim(s) ==
    LET at == {i \in DOMAIN s : ~is_whitespace(s[i])}
    IN  IF at = {} THEN <<>>
        ELSE SubSeq(s, CHOOSE i \in at : \A j \in at : i <= j,
                       CHOOSE i \in at : \A j \in at : j <= i)

starts_with(s, prefix) == Len(s) >= Len(prefix) /\ SubSeq(s, 1, Len(prefix)) = prefix

\* str::trim_start, str::trim_matches(ch), str::contains(ch)
trim_start(s) ==
    IF find_non_whitespace(s, 0) = -1 THEN <<>>
    ELSE SubSeq(s, find_non_whitespace(s, 0) + 1, Len(s))

trim_matches(s, ch) ==
    LET at == {i \in DOMAIN s : s[i] # ch}
    IN  IF at = {} THEN <<>>
        ELSE SubSeq(s, CHOOSE i \in at : \A j \in at : i <= j,
                       CHOOSE i \in at : \A j \in at : j <= i)

contains(s, ch) == \E i \in DOMAIN s : s[i] = ch

\* line.len() - line.trim_start().len()
indent_of(line) == Len(line) - Len(trim_start(line))

\* text[from..].trim()
trimmed_from(text, from) == trim(SubSeq(text, from + 1, Len(text)))

UnknownContext ==
    [kind |-> "Unknown", target |-> <<>>, parameter |-> <<>>, partial |-> <<>>]
TargetValueContext(partial) ==
    [kind |-> "TargetValue", target |-> <<>>, parameter |-> <<>>, partial |-> partial]
ParameterKeyContext(target, partial) ==
    [kind |-> "ParameterKey", target |-> target, parameter |-> <<>>, partial |-> partial]
ParameterValueContext(target, parameter, partial) ==
    [kind |-> "ParameterValue", target |-> target, parameter |-> parameter,
     partial |-> partial]

\* lines 414-420: the value written after the colon of the key found on the
\* line, without its quotes; None when no colon follows the key
target_value_on(line, found) ==
    LET after_target == found[1][1] + found[1][2] + Len(TARGET_KEY)
        colon_at == find_str(line, <<":">>, after_target)
    IN  IF colon_at = -1 THEN None
        ELSE Some(trim_matches(trim_matches(trimmed_from(line, colon_at + 1), "\""), "'"))

RECURSIVE scope_search_leaving_at_blank(_, _, _)
scope_search_leaving_at_blank(lines, i, current_indent) ==
    IF i < 0 THEN None
    ELSE IF indent_of(lines[i + 1]) < current_indent THEN None
    ELSE IF /\ find_target_with_colon(lines[i + 1]) # None
            /\ indent_of(lines[i + 1]) = current_indent
            /\ target_value_on(lines[i + 1], find_target_with_colon(lines[i + 1])) # None
    THEN target_value_on(lines[i + 1], find_target_with_colon(lines[i + 1]))
    ELSE scope_search_leaving_at_blank(lines, i - 1, current_indent)

\* lines 401-421: the loop from line i up to the first line
RECURSIVE scope_search(_, _, _)
scope_search(lines, i, current_indent) ==
    IF i < 0 THEN None
    ELSE IF indent_of(lines[i + 1]) < current_indent /\ trim(lines[i + 1]) # <<>> THEN None
    ELSE IF /\ find_target_with_colon(lines[i + 1]) # None
            /\ indent_of(lines[i + 1]) = current_indent
            /\ target_value_on(lines[i + 1], find_target_with_colon(lines[i + 1])) # None
    THEN target_value_on(lines[i + 1], find_target_with_colon(lines[i + 1]))
    ELSE scope_search(lines, i - 1, current_indent)

\* lines 388-424
find_target_in_scope(lines, position) ==
    IF position.line >= Len(lines) THEN None
    ELSE scope_search(lines, position.line, indent_of(lines[position.line + 1]))

\* lines 346-356: Some(TargetValue) when the prefix holds the key and its colon
target_value_context(prefix) ==
    LET found == find_target_with_colon(prefix)
        after_target == found[1][1] + found[1][2] + Len(TARGET_KEY)
        colon_at == find_str(prefix, <<":">>, after_target)
    IN  IF found = None THEN None
        ELSE IF colon_at = -1 THEN None
        ELSE Some(TargetValueContext(trimmed_from(prefix, colon_at + 1)))

\* lines 360-382, given what find_target_in_scope returned
parameter_context(trimmed, target_value) ==
    IF target_value = None \/ trimmed = <<>> THEN UnknownContext
    ELSE IF contains(trimmed, ":")
    THEN ParameterValueContext(target_value[1],
             trim(SubSeq(trimmed, 1, find_str(trimmed, <<":">>, 0))),
             trimmed_from(trimmed, find_str(trimmed, <<":">>, 0) + 1))
    ELSE ParameterKeyContext(target_value[1], trimmed)

context_of_prefix(lines, position, prefix) ==
    IF target_value_context(prefix) # None THEN target_value_context(prefix)[1]
    ELSE parameter_context(trim(prefix), find_target_in_scope(lines, position))

\* lines 332-385
get_completion_context(lines, position) ==
    IF position.line >= Len(lines) THEN UnknownContext
    ELSE context_of_prefix(lines, position,
             SubSeq(lines[position.line + 1], 1,
                    IF position.character < Len(lines[position.line + 1])
                    THEN position.character ELSE Len(lines[position.line + 1])))

----------------------------------------------------------------------------
(* The inputs of a validation run                                          *)

MaxTargets == 2   \* entries of a document checked together
MaxArgs == 2      \* positional parameters of a checked signature

Lines == {0, 1, 2}

\* The search paths: the workspace root and one site-packages directory
ROOT == << <<"w">> >>
SITE == << <<"s">> >>

PY_M == <<"m", ".", "p", "y">>

\* Target values: one component, two components, three components
V_f == <<"f">>
V_m_f == <<"m", ".", "f">>
V_m_C == <<"m", ".", "C">>
V_m_D == <<"m", ".", "D">>
V_n_m_f == <<"n", ".", "m", ".", "f">>
DocValues == {V_f, V_m_f, V_m_C, V_m_D, V_n_m_f}

Arg(name, has_default) == [name |-> name, default |-> IF has_default THEN Some("expr") ELSE None]
Name(name) == [name |-> name]

Params(posonlyargs, args, vararg, kwonlyargs, kwarg) ==
    [posonlyargs |-> posonlyargs, args |-> args, vararg |-> vararg,
     kwonlyargs |-> kwonlyargs, kwarg |-> kwarg]

\* def f(x, y=expr): ...
\* class C:
\*     def __init__(self, x, **kwargs): ...
\* class D:
\*     def helper(self): ...
\* if ...:
\*     def g(*args, k): ...
SuiteOne ==
    << FunctionDef(<<"f">>, Params(<<>>, <<Arg("x", FALSE), Arg("y", TRUE)>>, None, <<>>, None), <<>>),
       ClassDef(<<"C">>,
           << FunctionDef(DUNDER_INIT,
                  Params(<<>>, <<Arg("self", FALSE), Arg("x", FALSE)>>, None, <<>>,
                         Some(Name("kwargs"))), <<>>) >>),
       ClassDef(<<"D">>,
           << FunctionDef(<<"h">>, Params(<<>>, <<Arg("self", FALSE)>>, None, <<>>, None), <<>>) >>),
       OtherStmt(<< FunctionDef(<<"g">>,
                        Params(<<>>, <<>>, Some(Name("args")), <<Arg("k", FALSE)>>, None), <<>>) >>) >>

\* class f:
\*     def __init__(self, /, q, *, k=expr): ...
\* def C(x, **kwargs): ...
SuiteTwo ==
    << ClassDef(<<"f">>,
           << FunctionDef(DUNDER_INIT,
                  Params(<<Arg("self", FALSE)>>, <<Arg("q", FALSE)>>, None, <<Arg("k", TRUE)>>, None),
                  <<>>) >>),
       FunctionDef(<<"C">>, Params(<<>>, <<Arg("x", FALSE)>>, None, <<>>, Some(Name("kwargs"))), <<>>) >>

World(workspace_root, dirs, site_packages, files) ==
    [workspace_root |-> workspace_root, dirs |-> dirs,
     site_packages |-> site_packages, files |-> files]

File(parses, suite) == [parses |-> parses, suite |-> suite]
OneFile(path, file) == [p \in {path} |-> file]
NoFiles == [p \in {} |-> File(FALSE, <<>>)]

DocWorlds ==
    { World(Some(ROOT), {ROOT, CWD}, [ok |-> FALSE, val |-> <<>>],
            OneFile(path_push(ROOT, PY_M), File(TRUE, SuiteOne))),
      World(Some(ROOT), {ROOT, CWD}, [ok |-> TRUE, val |-> <<SITE>>],
            OneFile(path_push(ROOT, PY_M), File(FALSE, <<>>))),
      World(Some(ROOT), {ROOT, CWD}, [ok |-> TRUE, val |-> <<SITE>>], NoFiles),
      World(Some(ROOT), {CWD, SITE}, [ok |-> TRUE, val |-> <<SITE>>],
            OneFile(path_push(path_push(SITE, <<"m">>), INIT_PY), File(TRUE, SuiteTwo))),
      World(None, {CWD}, [ok |-> FALSE, val |-> <<>>],
            OneFile(path_push(CWD, <<"m", ".", "p", "y", "i">>), File(TRUE, SuiteOne))) }

\* yaml_parser.rs lines 10-48 as diagnostics.rs uses them: a parameter with
\* the span of its key, a target with its parameters by name
ParameterValue(line, key_start, key_end) ==
    [line |-> line, key_start |-> key_start, key_end |-> key_end]

TargetInfo(value, parameters, line, key_start, value_start) ==
    [value |-> value, parameters |-> parameters, line |-> line,
     key_start |-> key_start, value_start |-> value_start]

NoParams == [k \in {} |-> ParameterValue(0, 0, 0)]

\* The parameters a document entry on the given line is tried with: none; x
\* on the next line; x on the next line and q left at line 0, column 0.
DocParams(line, key_start) ==
    { NoParams,
      [k \in {"x"} |-> ParameterValue(line + 1, key_start, key_start + 1)],
      [k \in {"x", "q"} |->
          IF k = "x" THEN ParameterValue(line + 1, key_start, key_start + 1)
          ELSE ParameterValue(0, 0, 1)] }

DocTargets(line) ==
    { TargetInfo(v, ps, line, 2 * line, 2 * line + 10) :
        v \in DocValues, ps \in DocParams(line, 2 * line) }

\* The HashMaps of at most MaxTargets entries, each keyed by its line
DocInputs ==
    UNION { { t \in [S -> UNION {DocTargets(l) : l \in S}] : \A l \in S : t[l].line = l } :
            S \in {X \in SUBSET Lines : Cardinality(X) <= MaxTargets} }

\* The signatures an entry is checked against: every parameter list of at
\* most MaxArgs distinct positional names (a default never followed by a
\* parameter without one), the first of them positional-only or not, with or
\* without *args, a keyword-only k and **kwargs.
ArgNames == {"self", "x", "y"}

ArgLists ==
    { a \in UNION {[1..n -> ArgNames \X BOOLEAN] : n \in 0..MaxArgs} :
        /\ \A i, j \in DOMAIN a : a[i][1] = a[j][1] => i = j
        /\ \A i, j \in DOMAIN a : (i < j /\ a[i][2]) => a[j][2] }

ArgsOf(a) == [i \in DOMAIN a |-> Arg(a[i][1], a[i][2])]

ArgSplits == { an \in ArgLists \X {0, 1} : an[2] <= Len(an[1]) }

ParamSpace ==
    { Params(SubSeq(ArgsOf(an[1]), 1, an[2]), SubSeq(ArgsOf(an[1]), an[2] + 1, Len(an[1])),
             vararg, kwonlyargs, kwarg) :
        an \in ArgSplits, vararg \in {None, Some(Name("args"))},
        kwonlyargs \in {<<>>, <<Arg("k", FALSE)>>, <<Arg("k", TRUE)>>},
        kwarg \in {None, Some(Name("kwargs"))} }

\* m.py holds one definition named f: a function, a class with __init__, or
\* a class without
EntrySuites ==
    { <<FunctionDef(<<"f">>, ps, <<>>)>> : ps \in ParamSpace }
    \cup { <<ClassDef(<<"f">>, <<FunctionDef(DUNDER_INIT, ps, <<>>)>>)>> : ps \in ParamSpace }
    \cup { <<ClassDef(<<"f">>, <<>>)>> }

EntryWorlds ==
    { World(Some(ROOT), {ROOT, CWD}, [ok |-> FALSE, val |-> <<>>],
            OneFile(path_push(ROOT, PY_M), File(TRUE, suite))) : suite \in EntrySuites }

EntryKeys == {"x", "y", "k", "self"}
KeyRow(k) == CASE k = "x" -> 1 [] k = "y" -> 2 [] k = "k" -> 3 [] OTHER -> 4
KeyLen(k) == IF k = "self" THEN 4 ELSE 1

\* One entry m.f on line 1 with any subset of EntryKeys, each key on its own
\* line below the target
EntryInputs ==
    { [l \in {1} |->
          TargetInfo(V_m_f, [k \in K |-> ParameterValue(1 + KeyRow(k), 2, 2 + KeyLen(k))], 1, 2, 12)] :
        K \in SUBSET EntryKeys }

ParamOrders(tgts) ==
    { po \in [DOMAIN tgts -> UNION {Perms(DOMAIN tgts[k].parameters) : k \in DOMAIN tgts}] :
        \A k \in DOMAIN tgts : po[k] \in Perms(DOMAIN tgts[k].parameters) }

----------------------------------------------------------------------------
(* The documents YamlParser::parse is run on.  serde_yaml is a library: the *)
(* model builds a document as a tree with its layout, and takes the text    *)
(* from render and the deserialized Value from value_of.                    *)

MaxEntries == 4     \* mapping entries and sequence items of a document, in all
MaxGap == 2         \* spaces written before and after the colon of a _target_ key

StrNode(text) == [kind |-> "Str", text |-> text, style |-> "", entries |-> <<>>]
NumNode(text) == [kind |-> "Num", text |-> text, style |-> "", entries |-> <<>>]
\* the quote a scalar is written in: style is "" (plain), "dq" or "sq"
quote_of(style) == IF style = "dq" THEN <<"\"">> ELSE IF style = "sq" THEN <<"'">> ELSE <<>>

\* an entry as it is written: the quote around its key (none, " or '), the
\* spaces before the colon and those after it (0: the value is written on
\* the next line)
WrittenEntry(key, val, quote, before, after) ==
    [key |-> key, val |-> val, quote |-> quote, before |-> before, after |-> after]
NodeEntry(key, val) == WrittenEntry(key, val, <<>>, 0, 1)
MapNode(style, entries) == [kind |-> "Map", text |-> <<>>, style |-> style, entries |-> entries]
SeqNode(style, item) ==
    [kind |-> "Seq", text |-> <<>>, style |-> style, entries |-> <<NodeEntry(<<>>, item)>>]

KEY_A == <<"a">>
KEY_B == <<"b">>
Scalars == {StrNode(<<"v">>)}
TargetScalars == {StrNode(V_m_f), StrNode(<<"m", ".", "g">>), NumNode(<<"5">>)}

\* the entries of a mapping after its _target_ entry, of n entries in all;
\* Child[k] is the set of the trees of k entries a value can be
RestOf(Child, n) ==
    IF n = 0 THEN {<<>>}
    ELSE {<<NodeEntry(KEY_A, c)>> : c \in Child[n - 1]}
         \cup UNION { {<<NodeEntry(KEY_A, c[1]), NodeEntry(KEY_B, c[2])>> :
                            c \in Child[i] \X Child[n - 2 - i]} : i \in 0..(n - 2) }

\* a mapping of n entries: without _target_, with _target_ as its first key,
\* or with _target_ as its last key
MapsOf(style, Child, n) ==
    {MapNode(style, rest) : rest \in RestOf(Child, n)}
    \cup {MapNode(style, <<NodeEntry(TARGET_KEY, t)>> \o rest) :
            t \in TargetScalars, rest \in RestOf(Child, n - 1)}
    \cup {MapNode(style, rest \o <<NodeEntry(TARGET_KEY, t)>>) :
            t \in TargetScalars, rest \in RestOf(Child, n - 1) \ {<<>>}}

SeqsOf(style, Child, n) == {SeqNode(style, c) : c \in Child[n - 1]}

\* the trees of n entries written in flow style, and those whose root is
\* written in block style
FlowNodes[n \in 0..MaxEntries] ==
    IF n = 0 THEN Scalars
    ELSE LET Child == [k \in 0..(n - 1) |-> FlowNodes[k]]
         IN  MapsOf("flow", Child, n) \cup SeqsOf("flow", Child, n)

BlockNodes[n \in 0..MaxEntries] ==
    IF n = 0 THEN Scalars
    ELSE LET Child == [k \in 0..(n - 1) |-> BlockNodes[k] \cup FlowNodes[k]]
         IN  MapsOf("block", Child, n) \cup SeqsOf("block", Child, n)

\* the ways the entry _target_: m.f is written
TargetEntries ==
    { WrittenEntry(TARGET_KEY, [StrNode(V_m_f) EXCEPT !.style = value_quote],
                   quote_of(key_quote), before, after) :
        key_quote \in {"", "dq", "sq"}, value_quote \in {"", "dq", "sq"},
        before \in 0..MaxGap, after \in 0..MaxGap }

\* the documents of one target mapping, written each way: at the root, below
\* a key with a parameter after it, as the item of a sequence, in flow style
WrittenDocuments ==
    UNION { { MapNode("block", <<te>>),
              MapNode("block", <<NodeEntry(KEY_A,
                  MapNode("block", <<te, NodeEntry(KEY_B, StrNode(<<"v">>))>>))>>),
              SeqNode("block", MapNode("block", <<te>>)) } : te \in TargetEntries }
    \cup { MapNode("flow", <<te>>) : te \in {e \in TargetEntries : e.after > 0} }

Documents ==
    UNION {BlockNodes[n] \cup FlowNodes[n] : n \in 1..MaxEntries} \cup WrittenDocuments

Spaces(n) == [i \in 1..n |-> " "]

RECURSIVE comma_separated(_)
comma_separated(parts) ==
    IF Len(parts) = 0 THEN <<>>
    ELSE IF Len(parts) = 1 THEN parts[1]
    ELSE parts[1] \o <<",", " ">> \o comma_separated(Tail(parts))

\* a scalar or a flow collection, on one line
\* the key of an entry up to its colon
key_text(e) == e.quote \o e.key \o e.quote \o Spaces(e.before) \o <<":">>

RECURSIVE inline(_)
inline(node) ==
    IF node.kind \in {"Str", "Num"} THEN quote_of(node.style) \o node.text \o quote_of(node.style)
    ELSE LET parts == [i \in DOMAIN node.entries |->
                          IF node.kind = "Map"
                          THEN key_text(node.entries[i]) \o Spaces(node.entries[i].after)
                               \o inline(node.entries[i].val)
                          ELSE inline(node.entries[i].val)]
         IN  IF node.kind = "Map" THEN <<"{">> \o comma_separated(parts) \o <<"}">>
             ELSE <<"[">> \o comma_separated(parts) \o <<"]">>

\* the lines of a node written at an indentation
RECURSIVE render(_, _)
render(node, indent) ==
    IF node.style # "block" THEN <<Spaces(indent) \o inline(node)>>
    ELSE Concat([i \in DOMAIN node.entries |->
            LET e == node.entries[i]
                below == render(e.val, indent + 2)
            IN  IF node.kind = "Seq"
                THEN <<Spaces(indent) \o <<"-", " ">>
                        \o SubSeq(below[1], indent + 3, Len(below[1]))>> \o Tail(below)
                ELSE IF e.val.style = "block" \/ e.after = 0
                THEN <<Spaces(indent) \o key_text(e)>> \o below
                ELSE <<Spaces(indent) \o key_text(e) \o Spaces(e.after) \o inline(e.val)>>])

\* the Value serde_yaml::from_str makes of the text of a node
RECURSIVE value_of(_)
value_of(node) ==
    IF node.kind = "Str" THEN StringValue(node.text)
    ELSE IF node.kind = "Num" THEN NumberValue(node.text)
    ELSE IF node.kind = "Map"
    THEN MappingValue([i \in DOMAIN node.entries |->
            Entry(StringValue(node.entries[i].key), value_of(node.entries[i].val))])
    ELSE SequenceValue([i \in DOMAIN node.entries |-> value_of(node.entries[i].val)])

----------------------------------------------------------------------------
(* The worlds resolve_module is run in                                     *)

MaxFiles == 3       \* files of the module that exist, over all search paths

SITE2 == << <<"t">> >>

ResolveModules == {<<"m">>, <<"n", ".", "m">>}

\* the files a module can be: the package and the module file, stub and
\* implementation, below a directory
FilesOf(dir, module_path) ==
    {path_push(path_push_all(dir, split(module_path, ".")), INIT_PYI),
     path_push(path_push_all(dir, split(module_path, ".")), INIT_PY),
     with_extension(path_push_all(dir, split(module_path, ".")), EXT_PYI),
     with_extension(path_push_all(dir, split(module_path, ".")), EXT_PY)}

\* the current directory exists; the workspace root and the site-packages
\* directories exist or not; files exist in directories that exist only
ResolveWorlds(module_path) ==
    UNION { { World(root, dirs \cup {CWD}, site, [p \in F |-> File(TRUE, <<>>)]) :
                root \in {None, Some(ROOT)},
                site \in {[ok |-> FALSE, val |-> <<>>],
                          [ok |-> TRUE, val |-> <<SITE, SITE2>>],
                          [ok |-> TRUE, val |-> <<SITE2, SITE>>]},
                F \in {X \in SUBSET UNION {FilesOf(d, module_path) : d \in dirs \cup {CWD}} :
                          Cardinality(X) <= MaxFiles} } :
            dirs \in SUBSET {ROOT, SITE, SITE2} }

-----------------------------------------------------------------------------
(* backend.rs: the handlers of the text notifications of one document.  A  *)
(* text is its lines with the serde_yaml::Value it deserializes to (kind   *)
(* "Error" when it does not).  A handler runs without interruption up to   *)
(* an .await; the one .await after the analysis is                         *)
(* client.publish_diagnostics(..).await, where the handler stays in        *)
(* inflight until the notification is sent.                                *)

HYDRA_AT == <<"#", " ", "@", "h", "y", "d", "r", "a">>
HYDRA_COLON == <<"#", " ", "h", "y", "d", "r", "a", ":">>

\* yaml_parser.rs lines 108-117
has_hydra_comment(lines) ==
    \E i \in DOMAIN lines :
        /\ i <= 10
        /\ starts_with(trim(lines[i]), HYDRA_AT) \/ starts_with(trim(lines[i]), HYDRA_COLON)

\* yaml_parser.rs lines 120-122: the search runs on the whole text
has_target_keyword(lines) == find_target_with_colon(join(lines, "\n")) # None

\* yaml_parser.rs lines 94-106
is_hydra_file(lines) ==
    IF has_hydra_comment(lines) THEN TRUE ELSE has_target_keyword(lines)

\* backend.rs lines 750-770
yaml_syntax_error_diagnostic ==
    Diagnostic(0, 0, 0, "ERROR", "yaml-syntax-error", "YAML syntax error", "", <<>>, <<>>, -1)

\* backend.rs lines 739-741: what parse returned, as validate_document takes
\* it: the targets by their line.  The texts of BackendTexts give their
\* targets no parameter.
target_map_of(p) ==
    [l \in DOMAIN p.line_map |->
        LET t == p.targets[p.line_map[l] + 1]
        IN  TargetInfo(t.value, NoParams, t.line, t.key_start, t.value_start)]

Analysis(target_map, r) ==
    [targets |-> target_map, diagnostics |-> r.diagnostics, calls |-> r.calls]

validated_analyses(target_map, w) ==
    {Analysis(target_map, validate_document(target_map, w, order, porder)) :
        order \in Perms(DOMAIN target_map), porder \in ParamOrders(target_map)}

analyses_validating_despite_error(p, w) == validated_analyses(target_map_of(p), w)

\* backend.rs lines 730-777 up to the .await: the arguments
\* client.publish_diagnostics can be called with, none when parse panics
analyses_of(p, w) ==
    IF p.status = "err"
    THEN {Analysis(<<>>, [diagnostics |-> <<yaml_syntax_error_diagnostic>>, calls |-> {}])}
    ELSE IF p.status = "panic" THEN {}
    ELSE validated_analyses(target_map_of(p), w)

publish_diagnostics_for_document(text, w) == analyses_of(parse(text.lines, text.yaml), w)

\* handler is the notification handled: "did_open" or "did_change"
Run(handler, text, v, analysis) ==
    [handler |-> handler, text |-> text, version |-> v, analysis |-> analysis]

\* backend.rs lines 118-121 and 137-141: the handlers a notification with
\* this text can leave suspended at the .await, as sets of at most one
started_runs(handler, text, v, w) ==
    IF ~is_hydra_file(text.lines) THEN {{}}
    ELSE IF publish_diagnostics_for_document(text, w) = {} THEN {{}}
    ELSE {{Run(handler, text, v, a)} : a \in publish_diagnostics_for_document(text, w)}

\* document.rs lines 4-14
Document(text, v) == [content |-> text, version |-> v]

\* DocumentStore::insert, update and remove (document.rs lines 28-47), on the
\* entry of the one Url
store_insert(text, v) == Some(Document(text, v))
store_update_or_insert(store, text, v) == Some(Document(text, v))
store_update(store, text, v) == IF store = None THEN None ELSE Some(Document(text, v))
store_remove == None

\* The texts the client sends: a target that validates or not, a target
\* whose format is invalid, a text without target, and texts that do not
\* deserialize, detected by the keyword or by the comment
MaxVersion == 3   \* text notifications the client sends

Text(lines, val) == [lines |-> lines, yaml |-> val]
TextOf(doc) == Text(render(doc, 0), value_of(doc))
ErrorValue == [kind |-> "Error", text |-> <<>>, children |-> <<>>]
OPEN_FLOW == <<"a", ":", " ", "[">>

BackendTexts ==
    { TextOf(MapNode("block", <<NodeEntry(TARGET_KEY, StrNode(v))>>)) : v \in {V_m_f, V_f} }
    \cup { TextOf(MapNode("block", <<NodeEntry(KEY_A, StrNode(<<"v">>))>>)),
           Text(<<TARGET_KEY \o <<":", " ">> \o V_m_f, OPEN_FLOW>>, ErrorValue),
           Text(<<HYDRA_AT, OPEN_FLOW>>, ErrorValue) }

BackendWorlds ==
    { World(Some(ROOT), {ROOT, CWD}, [ok |-> FALSE, val |-> <<>>],
            OneFile(path_push(ROOT, PY_M), File(TRUE, SuiteOne))),
      World(Some(ROOT), {ROOT, CWD}, [ok |-> TRUE, val |-> <<SITE>>], NoFiles) }

----------------------------------------------------------------------------
(* The run                                                                 *)

\* the backend has handled no notification
BackendIdle ==
    /\ documents = None
    /\ inflight = {}
    /\ published = <<>>
    /\ version = 0

Init ==
    /\ targets \in DocInputs
    /\ world \in DocWorlds
    /\ diagnostics = <<>>
    /\ resolved = {}
    /\ phase = "input"
    /\ BackendIdle
    /\ content = <<>>
    /\ yaml = NullValue
    /\ parsed = NotParsed
    /\ query = <<>>
    /\ answer = <<>>

\* diagnostics.rs lines 221-267: one call of validate_document
ValidateDocument ==
    /\ phase = "input"
    /\ \E order \in Perms(DOMAIN targets), porder \in ParamOrders(targets) :
          LET r == validate_document(targets, world, order, porder)
          IN  /\ diagnostics' = r.diagnostics
              /\ resolved' = r.calls
    /\ phase' = "validated"
    /\ UNCHANGED <<documents, inflight, published, version, targets, world, content, yaml, parsed, query, answer>>

Next == ValidateDocument

Spec == Init /\ [][Next]_vars

\* The same run on one entry, against every signature of ParamSpace
InitEntry ==
    /\ targets \in EntryInputs
    /\ world \in EntryWorlds
    /\ diagnostics = <<>>
    /\ resolved = {}
    /\ phase = "input"
    /\ BackendIdle
    /\ content = <<>>
    /\ yaml = NullValue
    /\ parsed = NotParsed
    /\ query = <<>>
    /\ answer = <<>>

SpecEntry == InitEntry /\ [][Next]_vars

\* YamlParser::parse on a document
InitYaml ==
    /\ \E doc \in Documents :
          /\ content = render(doc, 0)
          /\ yaml = value_of(doc)
    /\ parsed = NotParsed
    /\ query = <<>>
    /\ answer = <<>>
    /\ targets = <<>>
    /\ world = World(None, {}, [ok |-> FALSE, val |-> <<>>], NoFiles)
    /\ diagnostics = <<>>
    /\ resolved = {}
    /\ phase = "input"
    /\ BackendIdle

Parse ==
    /\ phase = "input"
    /\ parsed' = parse(content, yaml)
    /\ phase' = "parsed"
    /\ UNCHANGED <<documents, inflight, published, version, targets, world, diagnostics, resolved, content, yaml, query, answer>>

NextYaml == Parse

SpecYaml == InitYaml /\ [][NextYaml]_vars

\* PythonAnalyzer::resolve_module on a module path, in a world of at most
\* MaxFiles files
InitResolve ==
    /\ query \in ResolveModules
    /\ world \in ResolveWorlds(query)
    /\ answer = <<>>
    /\ targets = <<>>
    /\ diagnostics = <<>>
    /\ resolved = {}
    /\ phase = "input"
    /\ BackendIdle
    /\ content = <<>>
    /\ yaml = NullValue
    /\ parsed = NotParsed

ResolveModule ==
    /\ phase = "input"
    /\ answer' = resolve_module(query, world)
    /\ phase' = "resolved"
    /\ UNCHANGED <<documents, inflight, published, version, targets, world, diagnostics, resolved, content, yaml, parsed, query>>

NextResolve == ResolveModule

SpecResolve == InitResolve /\ [][NextResolve]_vars

\* YamlParser::find_target_at_position on a document and a position of its
\* text: a line of it or the line after the last, a column of the line or
\* one of the two after its end
Positions(lines) ==
    UNION { {Position(l, c) :
                c \in 0..(IF l < Len(lines) THEN Len(lines[l + 1]) + 1 ELSE 1)} :
            l \in 0..Len(lines) }

FindTargetAtPosition ==
    /\ phase = "input"
    /\ \E position \in Positions(content) :
          /\ query' = position
          /\ answer' = find_target_at_position(content, yaml, position)
    /\ phase' = "found"
    /\ UNCHANGED <<documents, inflight, published, version, targets, world, diagnostics, resolved, content, yaml, parsed>>

NextFind == FindTargetAtPosition

SpecFind == InitYaml /\ [][NextFind]_vars

\* The backend: did_open, did_change and did_close of one document, and the
\* completion of a suspended client.publish_diagnostics(..).await.  query is
\* the notification the backend handled last.
Notification(handler, text, v) == [handler |-> handler, text |-> text, version |-> v]

InitBackend ==
    /\ world \in BackendWorlds
    /\ BackendIdle
    /\ targets = <<>>
    /\ diagnostics = <<>>
    /\ resolved = {}
    /\ phase = "backend"
    /\ content = <<>>
    /\ yaml = NullValue
    /\ parsed = NotParsed
    /\ query = Notification("none", Text(<<>>, NullValue), 0)
    /\ answer = <<>>

\* backend.rs lines 110-125
DidOpen ==
    /\ documents = None
    /\ version < MaxVersion
    /\ \E text \in BackendTexts :
          /\ query' = Notification("did_open", text, version + 1)
          /\ documents' = store_insert(text, version + 1)
          /\ \E started \in started_runs("did_open", text, version + 1, world) :
                inflight' = inflight \cup started
    /\ version' = version + 1
    /\ UNCHANGED <<published, targets, world, diagnostics, resolved, phase, content, yaml,
                   parsed, answer>>

\* backend.rs lines 127-146
DidChange ==
    /\ version < MaxVersion
    /\ \E text \in BackendTexts :
          /\ query' = Notification("did_change", text, version + 1)
          /\ documents' = store_update(documents, text, version + 1)
          /\ \E started \in started_runs("did_change", text, version + 1, world) :
                inflight' = inflight \cup started
    /\ version' = version + 1
    /\ UNCHANGED <<published, targets, world, diagnostics, resolved, phase, content, yaml,
                   parsed, answer>>

\* backend.rs lines 157-164
DidClose ==
    /\ documents # None
    /\ documents' = store_remove
    /\ query' = Notification("did_close", Text(<<>>, NullValue), version)
    /\ UNCHANGED <<inflight, published, version, targets, world, diagnostics, resolved,
                   phase, content, yaml, parsed, answer>>

\* backend.rs lines 742-744 and 772-774: the .await of one handler completes
PublishDiagnostics ==
    /\ \E run \in inflight :
          /\ published' = Append(published, run)
          /\ inflight' = inflight \ {run}
    /\ UNCHANGED <<documents, version, targets, world, diagnostics, resolved, phase,
                   content, yaml, parsed, query, answer>>

NextBackend == DidOpen \/ DidChange \/ DidClose \/ PublishDiagnostics

SpecBackend == InitBackend /\ [][NextBackend]_vars

\* extract_definition_info on the target m.f, where m.py is a suite of at
\* most MaxStmts statements: definitions named f of either kind, at the top
\* or inside another statement, each with a parameter named after its place
\* in the suite; or the one definition of EntrySuites, with every parameter
\* list of ParamSpace
MaxStmts == 3

PlaceNames == <<"x", "y", "q", "r", "s">>

DefF(n) == FunctionDef(<<"f">>, Params(<<>>, <<Arg(n, FALSE)>>, None, <<>>, None), <<>>)
ClassF(n) ==
    ClassDef(<<"f">>,
        <<FunctionDef(DUNDER_INIT,
              Params(<<>>, <<Arg("self", FALSE), Arg(n, FALSE)>>, None, <<>>, None), <<>>)>>)

StmtsNamed(n) ==
    { DefF(n), ClassF(n),
      OtherStmt(<<DefF(n)>>), OtherStmt(<<ClassF(n)>>),
      FunctionDef(<<"g">>, NoParameters, <<ClassF(n)>>),
      ClassDef(<<"f">>, <<DefF(n)>>),
      FunctionDef(<<"g">>, NoParameters, <<>>) }

DefinitionSuites ==
    UNION { { s \in [1..n -> UNION {StmtsNamed(PlaceNames[i]) : i \in 1..n}] :
                \A i \in 1..n : s[i] \in StmtsNamed(PlaceNames[i]) } :
            n \in 1..MaxStmts }
    \cup EntrySuites

InitDefinition ==
    /\ query = V_m_f
    /\ \E suite \in DefinitionSuites :
          world = World(Some(ROOT), {ROOT, CWD}, [ok |-> FALSE, val |-> <<>>],
                        OneFile(path_push(ROOT, PY_M), File(TRUE, suite)))
    /\ answer = <<>>
    /\ targets = <<>>
    /\ diagnostics = <<>>
    /\ resolved = {}
    /\ phase = "input"
    /\ BackendIdle
    /\ content = <<>>
    /\ yaml = NullValue
    /\ parsed = NotParsed

\* python_analyzer.rs lines 263-282
ExtractDefinitionInfo ==
    /\ phase = "input"
    /\ answer' = extract_definition_info(query, world)
    /\ phase' = "extracted"
    /\ UNCHANGED <<documents, inflight, published, version, targets, world, diagnostics,
                   resolved, content, yaml, parsed, query>>

NextDefinition == ExtractDefinitionInfo

SpecDefinition == InitDefinition /\ [][NextDefinition]_vars

\* YamlParser::find_target_with_colon on a text of at most MaxTokens tokens:
\* the reserved key, a quote of either kind, a space, a colon, a letter
MaxTokens == 4

MatchTokens == {TARGET_KEY, <<"\"">>, <<"'">>, <<" ">>, <<":">>, <<"x">>}

MatchTexts ==
    UNION { {Concat(ts) : ts \in [1..n -> MatchTokens]} : n \in 0..MaxTokens }

InitMatch ==
    /\ query \in MatchTexts
    /\ answer = <<>>
    /\ world = World(None, {}, [ok |-> FALSE, val |-> <<>>], NoFiles)
    /\ targets = <<>>
    /\ diagnostics = <<>>
    /\ resolved = {}
    /\ phase = "input"
    /\ BackendIdle
    /\ content = <<>>
    /\ yaml = NullValue
    /\ parsed = NotParsed

\* yaml_parser.rs lines 126-183
FindTargetWithColon ==
    /\ phase = "input"
    /\ answer' = find_target_with_colon(query)
    /\ phase' = "matched"
    /\ UNCHANGED <<documents, inflight, published, version, targets, world, diagnostics,
                   resolved, content, yaml, parsed, query>>

NextMatch == FindTargetWithColon

SpecMatch == InitMatch /\ [][NextMatch]_vars

\* YamlParser::get_completion_context on a text and a position of it.  The
\* texts are the documents of fewer than MaxEntries entries and the documents
\* of one target mapping written each way, and the block documents with an
\* empty line or a line of one space put below one of their lines.
BlankLines == {<<>>, <<" ">>}

WithLineBelow(lines, i, line) == SubSeq(lines, 1, i) \o <<line>> \o SubSeq(lines, i + 1, Len(lines))

CompletionTexts ==
    { render(doc, 0) :
        doc \in WrittenDocuments
                \cup UNION {BlockNodes[n] \cup FlowNodes[n] : n \in 1..(MaxEntries - 1)} }
    \cup UNION { { WithLineBelow(render(doc, 0), i, line) :
                      i \in 1..Len(render(doc, 0)), line \in BlankLines } :
                  doc \in UNION {BlockNodes[n] : n \in 1..(MaxEntries - 1)} }

InitCompletion ==
    /\ content \in CompletionTexts
    /\ yaml = NullValue
    /\ parsed = NotParsed
    /\ query = <<>>
    /\ answer = <<>>
    /\ targets = <<>>
    /\ world = World(None, {}, [ok |-> FALSE, val |-> <<>>], NoFiles)
    /\ diagnostics = <<>>
    /\ resolved = {}
    /\ phase = "input"
    /\ BackendIdle

GetCompletionContext ==
    /\ phase = "input"
    /\ \E position \in Positions(content) :
          /\ query' = position
          /\ answer' = get_completion_context(content, position)
    /\ phase' = "completed"
    /\ UNCHANGED <<documents, inflight, published, version, targets, world, diagnostics,
                   resolved, content, yaml, parsed>>

NextCompletion == GetCompletionContext

SpecCompletion == InitCompletion /\ [][NextCompletion]_vars

----------------------------------------------------------------------------
(* Properties of validate_document                                         *)

Validated == phase = "validated"

\* The findings produced for the entry at key k
FindingsOf(k) == SelectSeq(diagnostics, LAMBDA d : d.target = k)

Count(s, Test(_)) == Len(SelectSeq(s, Test))

\* The number of '.'-separated components of a target value, and the text
\* before and after its last '.'
Components(v) == Cardinality({i \in DOMAIN v : v[i] = "."}) + 1
LastDot(v) == CHOOSE i \in DOMAIN v : v[i] = "." /\ \A j \in DOMAIN v : j > i => v[j] # "."
ModuleOf(v) == SubSeq(v, 1, LastDot(v) - 1)
SymbolOf(v) == SubSeq(v, LastDot(v) + 1, Len(v))

\* The signature the entry at key k is validated against: None when its
\* resolution fails or it resolves to a class with no __init__
SignatureOf(k) ==
    LET di == extract_definition_info(targets[k].value, world)
    IN  IF ~di.ok THEN None
        ELSE IF di.kind = "Function" THEN di.val
        ELSE di.val[1].init_signature

\* C1: the list validate_document returns is sorted: each finding's
\* (line, start column) is at most that of the finding after it.
C1_Sorted ==
    Validated =>
        \A i \in 1..(Len(diagnostics) - 1) :
            \/ diagnostics[i].line < diagnostics[i + 1].line
            \/ /\ diagnostics[i].line = diagnostics[i + 1].line
               /\ diagnostics[i].character <= diagnostics[i + 1].character

\* Findings of two entries share a line and differ in column, and findings on
\* different lines exist
C1_Witness ==
    /\ Validated
    /\ \E i \in 1..(Len(diagnostics) - 1) :
          /\ diagnostics[i].line = diagnostics[i + 1].line
          /\ diagnostics[i].character < diagnostics[i + 1].character
          /\ diagnostics[i].target # diagnostics[i + 1].target
    /\ \E i \in 1..(Len(diagnostics) - 1) : diagnostics[i].line < diagnostics[i + 1].line

\* The findings of the document that holds the entry at key k alone
AloneFindings(k) ==
    LET alone == [l \in {k} |-> targets[k]]
        porder == CHOOSE po \in ParamOrders(alone) : TRUE
    IN  validate_document(alone, world, <<k>>, porder).diagnostics

RECURSIVE AloneBag(_)
AloneBag(keys) ==
    IF keys = {} THEN EmptyBag
    ELSE LET k == CHOOSE x \in keys : TRUE
         IN  SeqToBag(AloneFindings(k)) (+) AloneBag(keys \ {k})

\* C2: every entry is validated independently: the returned list is a
\* permutation of the findings of each entry validated on its own, so a
\* failure of one entry removes or changes no finding of another.
C2_Independent ==
    Validated => SeqToBag(diagnostics) = AloneBag(DOMAIN targets)

\* One entry fails to resolve and another entry has parameter findings
C2_Witness ==
    /\ Validated
    /\ \E k1, k2 \in DOMAIN targets :
          /\ k1 # k2
          /\ SignatureOf(k1) = None
          /\ \E i \in DOMAIN diagnostics :
                diagnostics[i].target = k1 /\ diagnostics[i].code = "module-not-found"
          /\ \E i \in DOMAIN diagnostics :
                diagnostics[i].target = k2 /\ diagnostics[i].code = "missing-parameter"

\* C3: for an entry that resolves to a signature there is exactly one Error
\* finding missing-parameter for each signature parameter that has no
\* default, is not self, is not variadic and is not supplied, none for any
\* other parameter, each at the target's value span.
C3_MissingParameters ==
    Validated =>
        \A k \in DOMAIN targets :
            SignatureOf(k) # None =>
                LET t == targets[k]
                    ps == SignatureOf(k)[1].parameters
                    missing == SelectSeq(FindingsOf(k), LAMBDA d : d.code = "missing-parameter")
                IN  /\ \A i \in DOMAIN ps :
                          Count(missing, LAMBDA d : d.message.name = ps[i].name)
                          = IF /\ ~ps[i].has_default
                               /\ ps[i].name # "self"
                               /\ ~ps[i].is_variadic
                               /\ ~ps[i].is_variadic_keyword
                               /\ ps[i].name \notin DOMAIN t.parameters
                            THEN 1 ELSE 0
                    /\ \A i \in DOMAIN missing :
                          /\ missing[i].message.name \in {ps[j].name : j \in DOMAIN ps}
                          /\ missing[i].severity = "ERROR"
                          /\ missing[i].line = t.line
                          /\ missing[i].character = t.value_start
                          /\ missing[i].end_character = t.value_start + Len(t.value)

\* def f(x) with no supplied parameter: exactly one finding, for x
C3_Witness ==
    /\ Validated
    /\ \E k \in DOMAIN targets :
          /\ DOMAIN targets[k].parameters = {}
          /\ SignatureOf(k) # None
          /\ Len(SignatureOf(k)[1].parameters) = 1
          /\ Len(diagnostics) = 1
          /\ diagnostics[1].code = "missing-parameter"
          /\ diagnostics[1].message.name = "x"

\* The names a supplied key may have: the signature's parameter names without
\* self and without the two variadic slots
ExpectedNames(ps) ==
    {ps[i].name : i \in {j \in DOMAIN ps :
        ps[j].name # "self" /\ ~ps[j].is_variadic /\ ~ps[j].is_variadic_keyword}}

HasKwargs(ps) == \E i \in DOMAIN ps : ps[i].is_variadic_keyword

\* C4: when the signature has a **kwargs parameter there is no Error finding
\* unknown-parameter, and exactly one Hint for each supplied key that is not
\* an expected name.
C4_KwargsHints ==
    Validated =>
        \A k \in DOMAIN targets :
            (SignatureOf(k) # None /\ HasKwargs(SignatureOf(k)[1].parameters)) =>
                LET ps == SignatureOf(k)[1].parameters
                    mine == FindingsOf(k)
                IN  /\ \A i \in DOMAIN mine :
                          ~(mine[i].severity = "ERROR" /\ mine[i].code = "unknown-parameter")
                    /\ \A key \in DOMAIN targets[k].parameters :
                          Count(mine, LAMBDA d : d.severity = "HINT" /\ d.message.name = key)
                          = IF key \in ExpectedNames(ps) THEN 0 ELSE 1
                    /\ \A i \in DOMAIN mine :
                          mine[i].severity = "HINT" =>
                              mine[i].message.name \in DOMAIN targets[k].parameters

\* def f(x, **kwargs) with x and y supplied: no Error, one Hint naming y
C4_Witness ==
    /\ Validated
    /\ \E k \in DOMAIN targets :
          /\ DOMAIN targets[k].parameters = {"x", "y"}
          /\ SignatureOf(k) # None
          /\ HasKwargs(SignatureOf(k)[1].parameters)
          /\ ExpectedNames(SignatureOf(k)[1].parameters) = {"x"}
          /\ Len(diagnostics) = 1
          /\ diagnostics[1].severity = "HINT"
          /\ diagnostics[1].message.name = "y"

\* C5: when the signature has no **kwargs parameter each supplied key that is
\* not an expected name has exactly one Error finding unknown-parameter, at
\* the span of its own key, and an expected name has none.
C5_UnknownParameters ==
    Validated =>
        \A k \in DOMAIN targets :
            (SignatureOf(k) # None /\ ~HasKwargs(SignatureOf(k)[1].parameters)) =>
                LET ps == SignatureOf(k)[1].parameters
                    unknown == SelectSeq(FindingsOf(k), LAMBDA d : d.code = "unknown-parameter")
                IN  /\ \A key \in DOMAIN targets[k].parameters :
                          Count(unknown, LAMBDA d : d.message.name = key)
                          = IF key \in ExpectedNames(ps) THEN 0 ELSE 1
                    /\ \A i \in DOMAIN unknown :
                          /\ unknown[i].message.name \in DOMAIN targets[k].parameters
                          /\ unknown[i].severity = "ERROR"
                          /\ LET pv == targets[k].parameters[unknown[i].message.name]
                             IN  /\ unknown[i].line = pv.line
                                 /\ unknown[i].character = pv.key_start
                                 /\ unknown[i].end_character = pv.key_end

\* __init__(self, x) with self, x and y supplied: findings for self and y
C5_Witness ==
    /\ Validated
    /\ \E k \in DOMAIN targets :
          /\ DOMAIN targets[k].parameters = {"self", "x", "y"}
          /\ SignatureOf(k) # None
          /\ ~HasKwargs(SignatureOf(k)[1].parameters)
          /\ ExpectedNames(SignatureOf(k)[1].parameters) = {"x"}
          /\ {diagnostics[i].message.name :
                 i \in {j \in DOMAIN diagnostics : diagnostics[j].code = "unknown-parameter"}}
             = {"self", "y"}

\* C6: a target value of fewer than 2 components has an Error finding
\* invalid-target over its value span and no module resolution is attempted
\* for it; a value of 2 or more components goes to module resolution with all
\* components but the last as module path and the last as symbol.
C6_SplitTarget ==
    Validated =>
        /\ \A k \in DOMAIN targets :
              Components(targets[k].value) < 2 =>
                  \E i \in DOMAIN diagnostics :
                      /\ diagnostics[i].target = k
                      /\ diagnostics[i].code = "invalid-target"
                      /\ diagnostics[i].severity = "ERROR"
                      /\ diagnostics[i].line = targets[k].line
                      /\ diagnostics[i].character = targets[k].value_start
                      /\ diagnostics[i].end_character
                         = targets[k].value_start + Len(targets[k].value)
        /\ \A i \in DOMAIN diagnostics :
              diagnostics[i].code = "invalid-target"
                  => Components(targets[diagnostics[i].target].value) < 2
        /\ resolved = { ModuleOf(targets[k].value) :
                          k \in {l \in DOMAIN targets : Components(targets[l].value) >= 2} }
        /\ \A i \in DOMAIN diagnostics :
              diagnostics[i].code = "symbol-not-found"
                  => /\ diagnostics[i].message.subject
                        = SymbolOf(targets[diagnostics[i].target].value)
                     /\ diagnostics[i].message.reason
                        = <<ModuleOf(targets[diagnostics[i].target].value)>>

\* A document with the entries f and n.m.f: only n.m was resolved
C6_Witness ==
    /\ Validated
    /\ \E k1, k2 \in DOMAIN targets :
          /\ targets[k1].value = <<"f">>
          /\ targets[k2].value = <<"n", ".", "m", ".", "f">>
    /\ resolved = {<<"n", ".", "m">>}
    /\ \E i \in DOMAIN diagnostics : diagnostics[i].code = "invalid-target"

\* The stage at which the resolution of the entry at key k fails, named by
\* the code of its finding, or "ok"
FailureOf(k) ==
    LET v == targets[k].value
    IN  IF Components(v) < 2 THEN "invalid-target"
        ELSE IF ~resolve_module(ModuleOf(v), world).ok THEN "module-not-found"
        ELSE IF ~extract_definition_info(v, world).ok THEN "symbol-not-found"
        ELSE "ok"

\* C7: an entry whose resolution fails has exactly one finding, the Error of
\* the stage that failed, and no parameter finding.
C7_FailureStopsEntry ==
    Validated =>
        \A k \in DOMAIN targets :
            FailureOf(k) # "ok" =>
                /\ Len(FindingsOf(k)) = 1
                /\ FindingsOf(k)[1].severity = "ERROR"
                /\ FindingsOf(k)[1].code = FailureOf(k)

\* An entry that supplies parameters fails at the symbol lookup, another at
\* the module resolution
C7_Witness ==
    /\ Validated
    /\ \E k1, k2 \in DOMAIN targets :
          /\ FailureOf(k1) = "symbol-not-found"
          /\ DOMAIN targets[k1].parameters # {}
          /\ FailureOf(k2) = "module-not-found"
          /\ DOMAIN targets[k2].parameters # {}
          /\ Len(diagnostics) = 2

\* C8: the module-not-found finding of an entry spans the target value, from
\* value_start to value_end on the entry's line, and its message holds the
\* resolver's reason.
C8_ModuleNotFoundSpan ==
    Validated =>
        \A i \in DOMAIN diagnostics :
            diagnostics[i].code = "module-not-found" =>
                LET t == targets[diagnostics[i].target]
                IN  /\ diagnostics[i].line = t.line
                    /\ diagnostics[i].character = t.value_start
                    /\ diagnostics[i].end_character = t.value_start + Len(t.value)
                    /\ diagnostics[i].message.reason
                       = resolve_module(ModuleOf(t.value), world).err

----------------------------------------------------------------------------
(* Properties of YamlParser::parse                                         *)

Parsed == phase = "parsed"

\* the mappings of a value tree, in pre-order depth-first document order
RECURSIVE MappingsOf(_)
MappingsOf(v) ==
    LET below == Concat([i \in DOMAIN v.children |-> MappingsOf(v.children[i].val)])
    IN  IF v.kind = "Mapping" THEN <<v>> \o below ELSE below

\* a target mapping: a mapping with the key _target_ holding a string
IsTargetMapping(v) ==
    \E i \in DOMAIN v.children :
        v.children[i].key = StringValue(TARGET_KEY) /\ v.children[i].val.kind = "String"

\* every _target_ key of the document holds a string
TargetsAreStrings ==
    \A i \in DOMAIN MappingsOf(yaml) :
        mapping_get(MappingsOf(yaml)[i], TARGET_KEY) # None => IsTargetMapping(MappingsOf(yaml)[i])

\* C9: on a document whose _target_ keys all hold strings, parse returns one
\* arena entry for every target mapping of the value tree, at any depth, the
\* entries in pre-order depth-first document order.
C9_EntryPerTargetMapping ==
    (Parsed /\ TargetsAreStrings) =>
        /\ parsed.status = "ok"
        /\ [i \in DOMAIN parsed.targets |-> parsed.targets[i].origin]
              = SelectSeq(MappingsOf(yaml), IsTargetMapping)

\* C10: on a document whose _target_ keys all hold strings, every
\* NestedTargetIndex of the entry at index i of the returned arena is an index
\* j with i < j < arena length, and entry j is the entry extracted from the
\* mapping that is the parameter's value.
C10_NestedIndexInArena ==
    (Parsed /\ TargetsAreStrings /\ parsed.status = "ok") =>
        \A i \in DOMAIN parsed.targets :
            \A k \in DOMAIN parsed.targets[i].parameters :
                LET p == parsed.targets[i].parameters[k]
                IN  p.kind = "NestedTargetIndex" =>
                        /\ i - 1 < p.index
                        /\ p.index < Len(parsed.targets)
                        /\ parsed.targets[p.index + 1].origin = p.val

\* the lines the key matcher matches, in line order
MatchedLines ==
    SelectSeq([i \in DOMAIN content |-> i - 1],
              LAMBDA l : find_target_with_colon(content[l + 1]) # None)

\* C11: when parse returns an arena for a document whose _target_ keys all
\* hold strings, the k-th entry has the k-th line the key matcher matches,
\* and the value written on that line is the value of the entry.
C11_LineOfOwnKey ==
    (Parsed /\ TargetsAreStrings /\ parsed.status = "ok") =>
        \A k \in DOMAIN parsed.targets :
            /\ k <= Len(MatchedLines)
            /\ parsed.targets[k].line = MatchedLines[k]
            /\ find_str(content[parsed.targets[k].line + 1], parsed.targets[k].value, 0) # -1

\* the document has one target mapping and no other mapping with a _target_ key
OneTargetMapping ==
    /\ TargetsAreStrings
    /\ Len(SelectSeq(MappingsOf(yaml), IsTargetMapping)) = 1

\* C12: for a document with one target mapping, parse returns an arena of
\* one entry, and value_start is the column at which the target string is
\* written on the line of the entry, however key and value are quoted and
\* spaced.
C12_ValueStartOfSingleTarget ==
    (Parsed /\ OneTargetMapping) =>
        /\ parsed.status = "ok"
        /\ Len(parsed.targets) = 1
        /\ find_str(content[parsed.targets[1].line + 1], parsed.targets[1].value, 0)
              = parsed.targets[1].value_start

\* the keys of a mapping other than _target_, in source order
ParameterKeysOf(v) ==
    LET others == SelectSeq(v.children, LAMBDA e : e.key # StringValue(TARGET_KEY))
    IN  [i \in DOMAIN others |-> others[i].key.text]

\* C13: the parameter keys of every entry of the returned arena are the keys
\* of the mapping it was extracted from, _target_ removed, in source order.
C13_ParameterKeysKept ==
    (Parsed /\ TargetsAreStrings /\ parsed.status = "ok") =>
        \A i \in DOMAIN parsed.targets :
            [k \in DOMAIN parsed.targets[i].parameters |-> parsed.targets[i].parameters[k].key]
                = ParameterKeysOf(parsed.targets[i].origin)

----------------------------------------------------------------------------
(* Properties of resolve_module                                            *)

Resolved == phase = "resolved"

\* a stub file: the last component of the path ends in .pyi
IsStub(p) == p[Len(p)][Len(p[Len(p)])] = "i"

\* the stub beside an implementation file: the same path with .pyi for .py
StubBeside(p) == [p EXCEPT ![Len(p)] = @ \o <<"i">>]

\* the search paths of the run
SearchPaths == Range(search_paths_of(world))

\* C14, as stated: an implementation file is never returned from a search
\* path that also holds a stub of the module.
C14_NoStubAtSearchPath ==
    (Resolved /\ answer.ok /\ ~IsStub(answer.path)) =>
        \A d \in SearchPaths :
            answer.path \in FilesOf(d, query) =>
                \A p \in FilesOf(d, query) : IsStub(p) => ~path_exists(world, p)

\* C14, amended: a stub is preferred over the implementation of the same
\* form (package __init__ or module file) at the same search path: an
\* implementation file is never returned while the stub beside it exists.
C14_StubBeforeItsImplementation ==
    (Resolved /\ answer.ok /\ ~IsStub(answer.path)) =>
        ~path_exists(world, StubBeside(answer.path))

\* a stub is returned while the implementation beside it exists
C14_Witness ==
    /\ Resolved
    /\ answer.ok
    /\ IsStub(answer.path)
    /\ \E p \in DOMAIN world.files : ~IsStub(p) /\ StubBeside(p) = answer.path

\* the candidates as C15 enumerates them: by search path (workspace root if
\* given, current directory, site-packages directories as discovered), and
\* within a search path package stub, package, module stub, module
ClaimedSearchPaths ==
    (IF world.workspace_root # None THEN <<world.workspace_root[1]>> ELSE <<>>)
    \o <<CWD>>
    \o (IF world.site_packages.ok THEN world.site_packages.val ELSE <<>>)

ClaimedCandidates ==
    Concat([i \in DOMAIN ClaimedSearchPaths |->
        << Concat(<<ClaimedSearchPaths[i], split(query, "."), <<INIT_PYI>> >>),
           Concat(<<ClaimedSearchPaths[i], split(query, "."), <<INIT_PY>> >>),
           StubBeside(with_extension(
               Concat(<<ClaimedSearchPaths[i], split(query, ".")>>), EXT_PY)),
           with_extension(Concat(<<ClaimedSearchPaths[i], split(query, ".")>>), EXT_PY) >>])

ExistingCandidates == SelectSeq(ClaimedCandidates, LAMBDA p : p \in DOMAIN world.files)

\* C15: resolve_module returns the first candidate that exists, in the
\* order of ClaimedCandidates, and fails when none exists.
C15_FirstExistingCandidate ==
    Resolved =>
        IF ExistingCandidates = <<>> THEN ~answer.ok
        ELSE answer.ok /\ answer.path = ExistingCandidates[1]

\* candidates exist in two search paths, and the one of a search path after
\* the first is returned (the workspace root holds none)
C15_Witness ==
    /\ Resolved
    /\ answer.ok
    /\ world.workspace_root # None
    /\ Len(ExistingCandidates) >= 2
    /\ SubSeq(answer.path, 1, 1) # SubSeq(ExistingCandidates[Len(ExistingCandidates)], 1, 1)
    /\ SubSeq(answer.path, 1, 1) # ROOT

-----------------------------------------------------------------------------
(* Properties of the findings of a document                                *)

\* The targets of the document whose module resolves to a Python file that
\* does not parse
UnparsedFileTargets ==
    {k \in DOMAIN targets :
        /\ split_target(targets[k].value).ok
        /\ resolve_module(ModuleOf(targets[k].value), world).ok
        /\ ~world.files[resolve_module(ModuleOf(targets[k].value), world).path].parses}

\* C17: when a target resolves to a Python file that is not valid Python, the
\* document has a single finding, and it is a document-level parse failure,
\* not a finding of a target.
C17_SinglePythonParseFailure ==
    (Validated /\ UnparsedFileTargets # {}) =>
        /\ Len(diagnostics) = 1
        /\ diagnostics[1].code
           \notin {"invalid-target", "module-not-found", "symbol-not-found",
                   "unknown-parameter", "missing-parameter", "none"}

\* C18: every finding of a document carries a non-empty code.
C18_EveryFindingHasCode ==
    Validated => \A i \in DOMAIN diagnostics : diagnostics[i].code # "none"

-----------------------------------------------------------------------------
(* Properties of YamlParser::find_target_at_position                       *)

Found == phase = "found"

\* the arena entries of the document that are on the line of the position
EntriesOnLine ==
    {i \in DOMAIN parse(content, yaml).targets :
        parse(content, yaml).targets[i].line = query.line}

\* C20: a position on a character of the value of an entry of line L
\* (value_start <= C < value_end) returns that entry; a position on a line
\* that holds no target, before the value start or at or after the value end
\* returns none.
C20_EntryAtPosition ==
    (Found /\ answer.status = "ok") =>
        /\ \A i \in EntriesOnLine :
              LET target == parse(content, yaml).targets[i]
              IN  /\ (target.value_start <= query.character
                         /\ query.character < value_end(target))
                         => answer.val = Some(target)
                  /\ (query.character < target.value_start
                         \/ query.character >= value_end(target))
                         => answer.val # Some(target)
        /\ EntriesOnLine = {} => answer.val = None

-----------------------------------------------------------------------------
(* Properties of the backend                                               *)

\* the runs of the backend so far: published or suspended before publishing
RunsSoFar == Range(published) \cup inflight

IsYamlSyntaxError(d) ==
    /\ d.severity = "ERROR"
    /\ d.code = "yaml-syntax-error"
    /\ d.line = 0
    /\ d.character = 0

\* C16: for a text detected as a Hydra file that does not deserialize, the
\* handler publishes exactly one finding, the Error yaml-syntax-error at line
\* 0 column 0, and extracts and validates no target.
C16_YamlSyntaxErrorOnly ==
    /\ \A run \in RunsSoFar :
          run.text.yaml.kind = "Error" =>
              /\ Len(run.analysis.diagnostics) = 1
              /\ IsYamlSyntaxError(run.analysis.diagnostics[1])
              /\ run.analysis.targets = <<>>
              /\ run.analysis.calls = {}
    /\ (documents # None /\ documents[1].content.yaml.kind = "Error"
            /\ is_hydra_file(documents[1].content.lines))
          => \E run \in RunsSoFar : run.version = documents[1].version

\* The finding of a text detected by its comment and of one detected by its
\* _target_ key are both published, after the findings of a text that
\* deserializes
C16_Witness ==
    \E i, j, k \in DOMAIN published :
        /\ i < j /\ j < k
        /\ published[i].text.yaml.kind # "Error"
        /\ published[i].analysis.diagnostics # <<>>
        /\ published[j].text.yaml.kind = "Error"
        /\ has_hydra_comment(published[j].text.lines)
        /\ published[k].text.yaml.kind = "Error"
        /\ has_target_keyword(published[k].text.lines)

-----------------------------------------------------------------------------
(* Properties of extract_definition_info                                   *)

Extracted == phase = "extracted"

\* the statements of a suite in pre-order, depth first
RECURSIVE PreOrder(_)
PreOrder(stmts) ==
    IF stmts = <<>> THEN <<>>
    ELSE <<Head(stmts)>> \o PreOrder(Head(stmts).body) \o PreOrder(Tail(stmts))

\* the function and class statements of the module that have the name of the
\* symbol, in pre-order
NamedDefinitions ==
    SelectSeq(PreOrder(world.files[path_push(ROOT, PY_M)].suite),
              LAMBDA st : st.kind \in {"FunctionDef", "ClassDef"} /\ st.name = <<"f">>)

\* C22: extract_definition_info returns the definition of the first function
\* or class statement of that name in pre-order, whichever kind it is.
C22_FirstDefinitionOfEitherKind ==
    (Extracted /\ NamedDefinitions # <<>>) =>
        /\ answer.ok
        /\ IF NamedDefinitions[1].kind = "FunctionDef"
           THEN /\ answer.kind = "Function"
                /\ answer.val = Some(extract_function_signature_from_def(NamedDefinitions[1]))
           ELSE /\ answer.kind = "Class"
                /\ answer.val = Some(extract_class_info_from_def(NamedDefinitions[1]))

\* the ast::Parameters the returned signature was extracted from: those of
\* the first function named f, else of the __init__ of the first class
SourceParameters ==
    LET fns == SelectSeq(NamedDefinitions, LAMBDA st : st.kind = "FunctionDef")
        inits == SelectSeq(NamedDefinitions[1].body,
                           LAMBDA st : st.kind = "FunctionDef" /\ st.name = DUNDER_INIT)
    IN  IF fns # <<>> THEN Some(fns[1].parameters)
        ELSE IF inits # <<>> THEN Some(inits[1].parameters)
        ELSE None

\* the parameters of the signature extract_definition_info returned
ReturnedParameters ==
    IF answer.kind = "Function" THEN Some(answer.val[1].parameters)
    ELSE IF answer.val[1].init_signature # None
    THEN Some(answer.val[1].init_signature[1].parameters)
    ELSE None

\* C25: a signature lists positional-only, positional, *args, keyword-only,
\* **kwargs in this order; is_variadic holds for the *args parameter only,
\* is_variadic_keyword for the **kwargs parameter only, is_keyword_only for
\* the keyword-only parameters only, and a variadic parameter has no default.
C25_SignatureOrderAndFlags ==
    (Extracted /\ answer.ok /\ ReturnedParameters # None) =>
        LET sig == ReturnedParameters[1]
            ps == SourceParameters[1]
            npos == Len(ps.posonlyargs) + Len(ps.args)
            nvar == Len(ps.vararg)
            nkwo == Len(ps.kwonlyargs)
        IN  /\ [i \in DOMAIN sig |-> sig[i].name]
               = [i \in 1..(npos + nvar + nkwo + Len(ps.kwarg)) |->
                     (ps.posonlyargs \o ps.args \o ps.vararg \o ps.kwonlyargs \o ps.kwarg)[i].name]
            /\ \A i \in DOMAIN sig :
                  /\ sig[i].is_variadic <=> (nvar = 1 /\ i = npos + 1)
                  /\ sig[i].is_keyword_only <=> (npos + nvar < i /\ i <= npos + nvar + nkwo)
                  /\ sig[i].is_variadic_keyword <=> (i > npos + nvar + nkwo)
                  /\ ~(sig[i].is_variadic /\ sig[i].is_variadic_keyword)
                  /\ (sig[i].is_variadic \/ sig[i].is_variadic_keyword) => ~sig[i].has_default
            /\ Cardinality({i \in DOMAIN sig : sig[i].is_variadic}) <= 1
            /\ Cardinality({i \in DOMAIN sig : sig[i].is_variadic_keyword}) <= 1

\* A signature with a parameter of each of the five groups
C25_Witness ==
    /\ Extracted
    /\ answer.ok
    /\ ReturnedParameters # None
    /\ Len(ReturnedParameters[1]) = 5
    /\ Len(SourceParameters[1].posonlyargs) = 1
    /\ \E i, j, k \in DOMAIN ReturnedParameters[1] :
          /\ ReturnedParameters[1][i].is_variadic
          /\ ReturnedParameters[1][j].is_keyword_only
          /\ ReturnedParameters[1][k].is_variadic_keyword

-----------------------------------------------------------------------------
(* Properties of validate_document on a class                              *)

\* the entry at key k resolves to a class with no __init__ in its body
ClassWithoutInit(k) ==
    /\ extract_definition_info(targets[k].value, world).ok
    /\ extract_definition_info(targets[k].value, world).kind = "Class"
    /\ extract_definition_info(targets[k].value, world).val[1].init_signature = None

\* C28: an entry that resolves to a class with no __init__ directly in its
\* body has no parameter finding, whatever keys it supplies.
C28_NoParameterFindingWithoutInit ==
    Validated =>
        \A k \in DOMAIN targets :
            ClassWithoutInit(k) =>
                \A i \in DOMAIN FindingsOf(k) :
                    FindingsOf(k)[i].code
                        \notin {"missing-parameter", "unknown-parameter", "none"}

\* such an entry that supplies the keys x, y, k and self
C28_Witness ==
    /\ Validated
    /\ \E k \in DOMAIN targets :
          /\ ClassWithoutInit(k)
          /\ DOMAIN targets[k].parameters = {"x", "y", "k", "self"}
          /\ diagnostics = <<>>

-----------------------------------------------------------------------------
(* Further properties of YamlParser::parse                                 *)

\* C26: on a text that deserializes parse returns: it matches no more lines
\* than the value tree has arena entries, and takes no entry from an empty
\* queue.
C26_ParseReturns ==
    (Parsed /\ yaml.kind # "Error") =>
        /\ parsed.status # "panic"
        /\ Len(MatchedLines) <= Len(extract_targets(yaml, <<>>))

\* C30: in a result of parse the arena entries have strictly increasing lines
\* in index order, and the line map has one key per entry, the line of the
\* entry, which it maps to the index of the entry.
C30_LineMapOfArena ==
    (Parsed /\ parsed.status = "ok") =>
        /\ \A i, j \in DOMAIN parsed.targets :
              i < j => parsed.targets[i].line < parsed.targets[j].line
        /\ DOMAIN parsed.line_map = {parsed.targets[i].line : i \in DOMAIN parsed.targets}
        /\ Cardinality(DOMAIN parsed.line_map) = Len(parsed.targets)
        /\ \A i \in DOMAIN parsed.targets :
              parsed.line_map[parsed.targets[i].line] = i - 1

\* an arena of two entries that are not on consecutive lines
C30_Witness ==
    /\ Parsed
    /\ parsed.status = "ok"
    /\ Len(parsed.targets) = 2
    /\ parsed.targets[2].line > parsed.targets[1].line + 1
    /\ parsed.line_map[parsed.targets[2].line] = 1

\* the text of a line from its first character that is not whitespace
Unindented(line) ==
    IF find_non_whitespace(line, 0) = -1 THEN <<>>
    ELSE SubSeq(line, find_non_whitespace(line, 0) + 1, Len(line))

\* C23: in a result of parse every parameter of every entry has a line below
\* the line of its target, and it is the line its own key is written on.
C23_ParameterLineOfOwnKey ==
    (Parsed /\ parsed.status = "ok") =>
        \A i \in DOMAIN parsed.targets :
            \A k \in DOMAIN parsed.targets[i].parameters :
                LET p == parsed.targets[i].parameters[k]
                IN  /\ p.line > parsed.targets[i].line
                    /\ p.line < Len(content)
                    /\ starts_with(Unindented(content[p.line + 1]), p.key \o <<":">>)

-----------------------------------------------------------------------------
(* Properties of the key matcher                                           *)

Matched == phase = "matched"

\* optional whitespace, then a colon, from offset i of the text
RECURSIVE ColonAfter(_, _)
ColonAfter(text, i) ==
    /\ i < Len(text)
    /\ \/ text[i + 1] = ":"
       \/ text[i + 1] = " " /\ ColonAfter(text, i + 1)

\* a token starts at offset i: at the start of the text or after whitespace
TokenStart(text, i) == i = 0 \/ text[i] = " "

\* the reserved key is written at offset i as a key token: bare, or in one
\* matching pair of quotes opening at i, then optional whitespace and a colon
KeyTokenAt(text, i) ==
    /\ TokenStart(text, i)
    /\ \/ /\ i + Len(TARGET_KEY) <= Len(text)
          /\ SubSeq(text, i + 1, i + Len(TARGET_KEY)) = TARGET_KEY
          /\ ColonAfter(text, i + Len(TARGET_KEY))
       \/ /\ i + Len(TARGET_KEY) + 2 <= Len(text)
          /\ text[i + 1] \in {"\"", "'"}
          /\ SubSeq(text, i + 2, i + 1 + Len(TARGET_KEY)) = TARGET_KEY
          /\ text[i + 2 + Len(TARGET_KEY)] = text[i + 1]
          /\ ColonAfter(text, i + 2 + Len(TARGET_KEY))

KeyTokens == {i \in 0..Len(query) : KeyTokenAt(query, i)}

\* C24: the matcher reports a match exactly when the text holds the reserved
\* key as a key token, bare or in one matching pair of quotes, followed by
\* optional whitespace and a colon; the start column is that of the first
\* such key, at its opening quote when it is quoted.
C24_MatchIffKeyToken ==
    Matched =>
        /\ answer # None <=> KeyTokens # {}
        /\ answer # None =>
              /\ answer[1][1] \in KeyTokens
              /\ \A i \in KeyTokens : answer[1][1] <= i
              /\ answer[1][2] = (IF query[answer[1][1] + 1] \in {"\"", "'"} THEN 1 ELSE 0)

-----------------------------------------------------------------------------
(* Properties of YamlParser::get_completion_context                        *)

Completed == phase = "completed"

\* the number of whitespace characters a line starts with
Indent(line) ==
    Cardinality({i \in DOMAIN line : \A j \in 1..i : is_whitespace(line[j])})

\* the offsets of a text at which the reserved key is written, bare or in a
\* matching pair of quotes, with optional whitespace and a colon after it;
\* the offset is that of the key itself
KeysWithColon(text) ==
    {i \in 0..(Len(text) - Len(TARGET_KEY)) :
        /\ SubSeq(text, i + 1, i + Len(TARGET_KEY)) = TARGET_KEY
        /\ \/ ColonAfter(text, i + Len(TARGET_KEY))
           \/ /\ i > 0
              /\ text[i] \in {"\"", "'"}
              /\ i + Len(TARGET_KEY) < Len(text)
              /\ text[i + Len(TARGET_KEY) + 1] = text[i]
              /\ ColonAfter(text, i + Len(TARGET_KEY) + 1)}

\* the text after the colon of the key written at offset i, trimmed
AfterColonOf(text, i) ==
    trim(SubSeq(text, find_str(text, <<":">>, i + Len(TARGET_KEY)) + 2, Len(text)))

\* the line of the cursor and its prefix up to the cursor
CursorLine == content[query.line + 1]
CursorPrefix ==
    SubSeq(CursorLine, 1,
           IF query.character < Len(CursorLine) THEN query.character ELSE Len(CursorLine))

\* the _target_ lines of the scope of the cursor: at or above it, at the
\* indentation of its line, with no line of less indentation that is not
\* blank between them
ScopeTargetLines ==
    {i \in 0..query.line :
        /\ Indent(content[i + 1]) = Indent(CursorLine)
        /\ KeysWithColon(content[i + 1]) # {}
        /\ \A j \in (i + 1)..query.line :
              Indent(content[j + 1]) < Indent(CursorLine) => trim(content[j + 1]) = <<>>}

\* the value written on a _target_ line, without its quotes
ValuesOfLine(line) ==
    {trim_matches(trim_matches(AfterColonOf(line, i), "\""), "'") : i \in KeysWithColon(line)}

\* C21: past the last line the context is Unknown; with the reserved key and
\* its colon in the prefix it is TargetValue with the trimmed text between
\* the colon and the cursor; else, with a _target_ line in scope and a prefix
\* that is not blank, ParameterValue (key, trimmed partial value) when the
\* prefix holds a colon and ParameterKey (trimmed prefix) when it does not,
\* with the value of that line as target; else Unknown.
C21_CompletionContext ==
    Completed =>
        IF query.line >= Len(content) THEN answer = UnknownContext
        ELSE IF KeysWithColon(CursorPrefix) # {}
        THEN /\ answer.kind = "TargetValue"
             /\ \E i \in KeysWithColon(CursorPrefix) :
                   answer.partial = AfterColonOf(CursorPrefix, i)
        ELSE IF ScopeTargetLines # {} /\ trim(CursorPrefix) # <<>>
        THEN /\ \E i \in ScopeTargetLines : answer.target \in ValuesOfLine(content[i + 1])
             /\ IF contains(CursorPrefix, ":")
                THEN /\ answer.kind = "ParameterValue"
                     /\ answer.parameter
                        = trim(SubSeq(CursorPrefix, 1, find_str(CursorPrefix, <<":">>, 0)))
                     /\ answer.partial
                        = trim(SubSeq(CursorPrefix, find_str(CursorPrefix, <<":">>, 0) + 2,
                                      Len(CursorPrefix)))
                ELSE /\ answer.kind = "ParameterKey"
                     /\ answer.partial = trim(CursorPrefix)
        ELSE answer = UnknownContext

\* The cursor is in the value of a parameter, two lines or more below the
\* _target_ line of its scope, with an empty line between them
C21_Witness ==
    /\ Completed
    /\ query.line < Len(content)
    /\ answer.kind = "ParameterValue"
    /\ answer.partial # <<>>
    /\ answer.target = V_m_f
    /\ Indent(CursorLine) > 0
    /\ \A i \in ScopeTargetLines : i + 1 < query.line
    /\ \E j \in 1..query.line : content[j] = <<>>

-----------------------------------------------------------------------------
(* Further properties of the backend                                       *)

\* C27: when every handler has finished, the diagnostics published last for
\* the open document are those computed from its current text.
C27_PublishedIsCurrent ==
    (inflight = {} /\ documents # None /\ published # <<>>) =>
        /\ published[Len(published)].text = documents[1].content
        /\ published[Len(published)].version = documents[1].version

\* C29: the store follows the notifications: did_open puts the text and
\* version of the notification, did_change replaces them when the document
\* is in the store and leaves the store unchanged when it is not, did_close
\* removes the document, and nothing else changes the store.
C29_StoreFollowsNotifications ==
    [][IF query' = query THEN documents' = documents
       ELSE IF query'.handler = "did_close" THEN documents' = None
       ELSE IF query'.handler = "did_change" /\ documents = None THEN documents' = None
       ELSE documents' = Some([content |-> query'.text, version |-> query'.version])]_vars

\* a change was handled for a document that is not in the store, and its
\* findings are published
C29_Witness ==
    /\ query.handler = "did_change"
    /\ documents = None
    /\ version = 3
    /\ \E i \in DOMAIN published :
          published[i].version = 3 /\ published[i].handler = "did_change"

====
